---------------------------- MODULE Spec2Model ----------------------------
(***************************************************************************)
(* A model of the natural-language-to-SQL agent: the reason -> action ->   *)
(* observe (-> visualize) pipeline of SQLAgent, SQLAgentGemini and         *)
(* SQLAgentMock, the DatabaseMCPClient gateway they share, and the pure    *)
(* helpers of the Gemini agent (SQL extractor, result formatter, chart     *)
(* advisor, schema describer), DatabaseMCPServer with its SQLite file, and *)
(* DatabaseMCPClient and DatabaseMCPClientSync used directly.              *)
(*                                                                         *)
(* Python values are represented as follows.  A dict is a record whose     *)
(* fields are the dict's keys; None, the empty dict and a list are tagged  *)
(* records with a "pytype" field.  A text produced by the language model   *)
(* for the action stage is a sequence of one-character strings; an error   *)
(* message is the sequence of its prefixes followed by its cause.  A row   *)
(* is the sequence of its (key, cell) items in dict order and a cell is    *)
(* [ty, v]: the runtime type of the value and an opaque payload.           *)
(***************************************************************************)
EXTENDS Integers, Sequences, FiniteSets, TLC

(***************************************************************************)
(* Bounds of the model.                                                    *)
(***************************************************************************)
MaxInvocations == 2
MaxRows == 3
MaxCols == 2
MaxLongRows == 7
MaxRowCount == 3

(***************************************************************************)
(* Python values.                                                          *)
(***************************************************************************)
NoneVal == [pytype |-> "none"]
EmptyDict == [pytype |-> "dict0"]
PyList(items) == [pytype |-> "list", items |-> items]

IsDict(x) == ("pytype" \notin DOMAIN x) \/ (x.pytype = "dict0")
Keys(x) == IF "pytype" \in DOMAIN x THEN {} ELSE DOMAIN x
Has(d, k) == k \in Keys(d)
\* dict.get(k, default)
Get(d, k, default) == IF Has(d, k) THEN d[k] ELSE default
\* Python truth value of an execution result: None, {} and [] are false.
Truthy(x) ==
    IF "pytype" \in DOMAIN x
    THEN /\ x.pytype = "list"
         /\ Len(x.items) > 0
    ELSE TRUE

(***************************************************************************)
(* Text: str.strip, str.startswith, str.endswith and slicing on sequences  *)
(* of characters.                                                          *)
(***************************************************************************)
Whitespace == {" ", "\n"}
\* The backquote character is written "^": a TLA+ string cannot hold a backquote.
Tick == "^"
Fence == <<Tick, Tick, Tick>>
SqlFence == <<Tick, Tick, Tick, "s", "q", "l">>

StartsWith(s, p) == Len(s) >= Len(p) /\ SubSeq(s, 1, Len(p)) = p
EndsWith(s, p) == Len(s) >= Len(p) /\ SubSeq(s, Len(s) - Len(p) + 1, Len(s)) = p
DropFirst(s, n) == SubSeq(s, n + 1, Len(s))
DropLast(s, n) == SubSeq(s, 1, Len(s) - n)

RECURSIVE LStrip(_)
LStrip(s) == IF Len(s) > 0 /\ s[1] \in Whitespace THEN LStrip(Tail(s)) ELSE s
RECURSIVE RStrip(_)
RStrip(s) ==
    IF Len(s) > 0 /\ s[Len(s)] \in Whitespace THEN RStrip(DropLast(s, 1)) ELSE s
\* A mutant of str.strip: only the leading whitespace is removed.
StripLeftOnly(s) == LStrip(s)
Strip(s) == RStrip(LStrip(s))

\* A mutant of _extract_sql_query: the sql-tagged opening fence is not removed.
ExtractKeepsSqlTag(llm_response) ==
    LET s0 == Strip(llm_response)
        s2 == IF EndsWith(s0, Fence) THEN DropLast(s0, 3) ELSE s0
        s3 == IF StartsWith(s2, Fence) THEN DropFirst(s2, 3) ELSE s2
        s4 == IF EndsWith(s3, Fence) THEN DropLast(s3, 3) ELSE s3
    IN  Strip(s4)

\* SQLAgent._extract_sql_query and SQLAgentGemini._extract_sql_query
_extract_sql_query(llm_response) ==
    LET s0 == Strip(llm_response)
        s1 == IF StartsWith(s0, SqlFence) THEN DropFirst(s0, 6) ELSE s0
        s2 == IF EndsWith(s1, Fence) THEN DropLast(s1, 3) ELSE s1
        s3 == IF StartsWith(s2, Fence) THEN DropFirst(s2, 3) ELSE s2
        s4 == IF EndsWith(s3, Fence) THEN DropLast(s3, 3) ELSE s3
    IN  Strip(s4)

(***************************************************************************)
(* Rows and cells.  isinstance(value, (int, float)) and isinstance(value,  *)
(* str) read the runtime type of a cell; the values a SQLite row holds are *)
(* integers, reals, texts and NULL.                                        *)
(***************************************************************************)
NumericTypes == {"int", "float"}
TextTypes == {"str"}
CellTypes == NumericTypes \cup TextTypes \cup {"null"}
Cell(ty, v) == [ty |-> ty, v |-> v]
Item(k, c) == [k |-> k, c |-> c]
\* key not in ['id']
IdentifierColumns == {"id"}

RowKeys(row) == [j \in 1..Len(row) |-> row[j].k]
IsNumericField(it) == it.c.ty \in NumericTypes /\ it.k \notin IdentifierColumns
IsTextField(it) == it.c.ty \in TextTypes /\ it.k \notin IdentifierColumns
NumericFields(row) == RowKeys(SelectSeq(row, IsNumericField))
\* A mutant of the text-field scan: the id column is not excluded.
TextFieldsCountsId(row) == RowKeys(SelectSeq(row, LAMBDA it : it.c.ty \in TextTypes))
TextFields(row) == RowKeys(SelectSeq(row, IsTextField))

\* A mutant of _should_generate_chart: the row_count threshold is 1, not 2.
ShouldChartFromOneRow(execution_result) ==
    IF ~Truthy(execution_result) THEN FALSE
    ELSE IF IsDict(execution_result) /\ Get(execution_result, "type", "") = "error"
    THEN FALSE
    ELSE IF IsDict(execution_result) /\ Get(execution_result, "success", FALSE)
    THEN LET data == Get(execution_result, "data", EmptyDict)
             row_count == Get(execution_result, "row_count", 0)
         IN  IF /\ row_count >= 1
                /\ IsDict(data)
                /\ Has(data, "rows")
                /\ Len(data.rows) > 0
             THEN Len(NumericFields(data.rows[1])) > 0
             ELSE FALSE
    ELSE FALSE

\* A mutant of _should_generate_chart: the id column is not excluded.
ShouldChartCountsId(execution_result) ==
    IF ~Truthy(execution_result) THEN FALSE
    ELSE IF IsDict(execution_result) /\ Get(execution_result, "type", "") = "error"
    THEN FALSE
    ELSE IF IsDict(execution_result) /\ Get(execution_result, "success", FALSE)
    THEN LET data == Get(execution_result, "data", EmptyDict)
             row_count == Get(execution_result, "row_count", 0)
             IsNum(it) == it.c.ty \in NumericTypes
         IN  IF /\ row_count >= 2
                /\ IsDict(data)
                /\ Has(data, "rows")
                /\ Len(data.rows) > 0
             THEN Len(SelectSeq(data.rows[1], IsNum)) > 0
             ELSE FALSE
    ELSE FALSE

\* SQLAgentGemini._should_generate_chart
_should_generate_chart(execution_result) ==
    IF ~Truthy(execution_result) THEN FALSE
    ELSE IF IsDict(execution_result) /\ Get(execution_result, "type", "") = "error"
    THEN FALSE
    ELSE IF IsDict(execution_result) /\ Get(execution_result, "success", FALSE)
    THEN LET data == Get(execution_result, "data", EmptyDict)
             row_count == Get(execution_result, "row_count", 0)
         IN  IF /\ row_count >= 2
                /\ IsDict(data)
                /\ Has(data, "rows")
                /\ Len(data.rows) > 0
             THEN Len(NumericFields(data.rows[1])) > 0
             ELSE FALSE
    ELSE FALSE

(***************************************************************************)
(* A formatted text is [branch, text]: the branch of the formatter that    *)
(* returned, and the text as the sequence of the fragments the f-string    *)
(* joins (a literal, a number, a json.dumps of a value, an error message,  *)
(* a numbered row line).  The Chinese literals of the source are written   *)
(* by their English meaning.                                               *)
(***************************************************************************)
Lit(s) == [lit |-> s]
Num(n) == [num |-> n]
Json(v) == [json |-> v]
Msg(m) == [msg |-> m]
RowLine(i, row) == [line |-> i, row |-> row]
Joined(keys) == [join |-> keys]
RowLines(rows) == [i \in 1..Len(rows) |-> RowLine(i, rows[i])]

NoResultText == "no query result"
NoRowsText == "query succeeded, but no matching rows were found"
UnknownError == <<"unknown error">>

\* A mutant of _format_execution_result: the zero-rows test is missing.
FormatWithoutZeroRows(execution_result) ==
    IF ~Truthy(execution_result)
    THEN [branch |-> "none", text |-> <<Lit(NoResultText)>>]
    ELSE IF IsDict(execution_result) /\ Get(execution_result, "type", "") = "error"
    THEN [branch |-> "error",
          text |-> <<Lit("execution error: "), Msg(Get(execution_result, "error", UnknownError))>>]
    ELSE IF IsDict(execution_result) /\ Get(execution_result, "success", FALSE)
    THEN LET data == Get(execution_result, "data", EmptyDict)
             row_count == Get(execution_result, "row_count", 0)
         IN  IF IsDict(data) /\ Has(data, "rows")
             THEN IF Len(data.rows) = 1
                  THEN [branch |-> "one_row",
                        text |-> <<Lit("query succeeded, found 1 row:\n"), Json(data.rows[1])>>]
                  ELSE [branch |-> "multi_rows",
                        text |-> <<Lit("query succeeded, found "), Num(Len(data.rows)),
                                   Lit(" rows:\n")>> \o RowLines(data.rows)]
             ELSE [branch |-> "data_dump",
                   text |-> <<Lit("query succeeded, found "), Num(row_count),
                              Lit(" rows:\n"), Json(data)>>]
    ELSE [branch |-> "generic_dump", text |-> <<Json(execution_result)>>]

\* A mutant of _format_execution_result: a result without a success flag
\* counts as a success.
FormatSuccessByDefault(execution_result) ==
    IF ~Truthy(execution_result)
    THEN [branch |-> "none", text |-> <<Lit(NoResultText)>>]
    ELSE IF IsDict(execution_result) /\ Get(execution_result, "type", "") = "error"
    THEN [branch |-> "error",
          text |-> <<Lit("execution error: "), Msg(Get(execution_result, "error", UnknownError))>>]
    ELSE IF IsDict(execution_result) /\ Get(execution_result, "success", TRUE)
    THEN LET data == Get(execution_result, "data", EmptyDict)
             row_count == Get(execution_result, "row_count", 0)
         IN  IF row_count = 0
             THEN [branch |-> "zero_rows", text |-> <<Lit(NoRowsText)>>]
             ELSE IF IsDict(data) /\ Has(data, "rows")
             THEN IF Len(data.rows) = 1
                  THEN [branch |-> "one_row",
                        text |-> <<Lit("query succeeded, found 1 row:\n"), Json(data.rows[1])>>]
                  ELSE [branch |-> "multi_rows",
                        text |-> <<Lit("query succeeded, found "), Num(Len(data.rows)),
                                   Lit(" rows:\n")>> \o RowLines(data.rows)]
             ELSE [branch |-> "data_dump",
                   text |-> <<Lit("query succeeded, found "), Num(row_count),
                              Lit(" rows:\n"), Json(data)>>]
    ELSE [branch |-> "generic_dump", text |-> <<Json(execution_result)>>]

\* SQLAgentGemini._format_execution_result
_format_execution_result(execution_result) ==
    IF ~Truthy(execution_result)
    THEN [branch |-> "none", text |-> <<Lit(NoResultText)>>]
    ELSE IF IsDict(execution_result) /\ Get(execution_result, "type", "") = "error"
    THEN [branch |-> "error",
          text |-> <<Lit("execution error: "), Msg(Get(execution_result, "error", UnknownError))>>]
    ELSE IF IsDict(execution_result) /\ Get(execution_result, "success", FALSE)
    THEN LET data == Get(execution_result, "data", EmptyDict)
             row_count == Get(execution_result, "row_count", 0)
         IN  IF row_count = 0
             THEN [branch |-> "zero_rows", text |-> <<Lit(NoRowsText)>>]
             ELSE IF IsDict(data) /\ Has(data, "rows")
             THEN IF Len(data.rows) = 1
                  THEN [branch |-> "one_row",
                        text |-> <<Lit("query succeeded, found 1 row:\n"), Json(data.rows[1])>>]
                  ELSE [branch |-> "multi_rows",
                        text |-> <<Lit("query succeeded, found "), Num(Len(data.rows)),
                                   Lit(" rows:\n")>> \o RowLines(data.rows)]
             ELSE [branch |-> "data_dump",
                   text |-> <<Lit("query succeeded, found "), Num(row_count),
                              Lit(" rows:\n"), Json(data)>>]
    ELSE [branch |-> "generic_dump", text |-> <<Json(execution_result)>>]

\* rows[:5]
ChartSampleRows == 5
Min(a, b) == IF a < b THEN a ELSE b
FieldList(keys) == IF Len(keys) > 0 THEN Joined(keys) ELSE Lit("none")

\* SQLAgentGemini._prepare_chart_data
_prepare_chart_data(execution_result) ==
    IF ~Truthy(execution_result) \/ ~IsDict(execution_result)
    THEN <<Lit("invalid data")>>
    ELSE LET data == Get(execution_result, "data", EmptyDict)
         IN  IF ~IsDict(data) \/ ~Has(data, "rows")
             THEN <<Lit("no data rows")>>
             ELSE IF Len(data.rows) = 0
             THEN <<Lit("empty data")>>
             ELSE LET rows == data.rows
                      first_row == rows[1]
                  IN  <<Lit("data summary"),
                        Lit("total rows"), Num(Len(rows)),
                        Lit("columns"), Num(Len(RowKeys(first_row))),
                        Lit("numeric fields"), FieldList(NumericFields(first_row)),
                        Lit("text fields"), FieldList(TextFields(first_row)),
                        Lit("first 5 rows")>>
                      \o RowLines(SubSeq(rows, 1, Min(ChartSampleRows, Len(rows))))
                      \o (IF Len(rows) > ChartSampleRows
                          THEN <<Lit("... and "), Num(Len(rows) - ChartSampleRows),
                                 Lit(" more rows")>>
                          ELSE <<>>)

(***************************************************************************)
(* The gateway's wire values.                                              *)
(***************************************************************************)
\* DatabaseMCPClient.call_tool: raise Exception("MCP Server not connected")
NotConnectedError == <<"MCP Server not connected">>
\* DatabaseMCPClient._make_request: raise Exception(f"request failed: {e}")
RequestFailed(cause) == <<"request failed">> \o cause
\* DatabaseMCPClient.call_tool: raise Exception(f"tool call failed: {e}")
ToolCallFailed(cause) == <<"tool call failed">> \o cause
\* DatabaseMCPServer._execute_query: raise Exception(f"SQL execution error: {e}")
SqlExecutionError(cause) == <<"SQL execution error">> \o cause

\* DatabaseMCPServer.call_tool: return {"error": str(e)}
ErrorObject(message) == [error |-> message]
\* DatabaseMCPServer._execute_query, the SELECT branch
SelectResult(columns, rows) ==
    [type |-> "select", columns |-> columns, rows |-> rows, row_count |-> Len(rows)]
\* DatabaseMCPServer._execute_query, the other branch
DmlResult(rowcount) ==
    [type |-> "dml", affected_rows |-> rowcount, message |-> "query executed"]
\* The shape the agent's formatter and chart advisor read:
\* {success, data: {rows, columns}, row_count}
SuccessResult(columns, rows) ==
    [success |-> TRUE, data |-> [columns |-> columns, rows |-> rows],
     row_count |-> Len(rows)]

\* The action stage's except branch, for the mutant below: the message is lost.
ErrorResultWithoutMessage(message, sql_query) ==
    [type |-> "error", error |-> UnknownError, sql |-> sql_query]

\* The action stage's except branch: {"type": "error", "error": str(e), "sql": sql_query}
ErrorResult(message, sql_query) ==
    [type |-> "error", error |-> message, sql |-> sql_query]

(***************************************************************************)
(* The inputs of the pipeline.                                             *)
(***************************************************************************)
Variants == {"openai", "gemini", "mock"}
Slots == {1, 2}
Queries == {"users", "other"}
Contexts == {EmptyDict, [user |-> "u1"]}
LlmTexts == {"t1", "t2"}
\* What the model answers in the action stage: a bare statement, and a
\* statement in a sql-tagged fenced block.
SqlReplies == {<<"A">>, SqlFence \o <<"\n", "B", "\n">> \o Fence}
BackendStates == {"healthy", "unhealthy", "down"}

SampleColumns == <<"id", "age">>
SampleRow(n) == <<Item("id", Cell("int", n)), Item("age", Cell("int", 20 + n))>>
IdOnlyRow(n) == <<Item("id", Cell("int", n)), Item("name", Cell("str", n))>>
SampleRows(n) == [j \in 1..n |-> SampleRow(j)]
IdOnlyRows(n) == [j \in 1..n |-> IdOnlyRow(j)]

\* The answers of the backend to POST /api/query.
QueryResponses ==
    { ErrorObject(SqlExecutionError(<<"no such table">>)),
      DmlResult(1),
      SelectResult(SampleColumns, SampleRows(0)),
      SelectResult(SampleColumns, SampleRows(2)),
      SuccessResult(SampleColumns, SampleRows(0)),
      SuccessResult(SampleColumns, SampleRows(1)),
      SuccessResult(SampleColumns, SampleRows(2)),
      SuccessResult(<<"id", "name">>, IdOnlyRows(2)) }

\* SQLAgentMock._execute_sql_query returns the list of the rows.
MockResults == {PyList(SampleRows(0)), PyList(SampleRows(2))}

\* SQLAgentMock._generate_sql_from_query
_generate_sql_from_query(query) ==
    IF query = "users" THEN <<"U">> ELSE <<"L">>

NoChartNeeded == "no chart needed"

(***************************************************************************)
(* The state.                                                              *)
(*   variant        which agent class was constructed                      *)
(*   backend        the backend behind the gateway: healthy, answering     *)
(*                  with another status, or unreachable                    *)
(*   session        DatabaseMCPClient.session: none, open or closed        *)
(*   connected      DatabaseMCPClient.connected                            *)
(*   mcp_connected  the agent's mcp_connected flag                         *)
(*   closer         the position of a close() call                         *)
(*   running        the coroutine that runs and has not yet suspended (0   *)
(*                  when the event loop is free)                           *)
(*   pc, st, loc    per invocation of execute(): its position, its         *)
(*                  AgentState, and the local sql_query of the action stage*)
(*   result, http   what execute() returned and what the HTTP caller sent  *)
(*   log            per invocation, the stages entered and the calls made  *)
(*   ninv           the number of invocations started                      *)
(*   adv_in, adv_out  the argument and the outcome of a direct call of a   *)
(*                  helper of the Gemini agent                             *)
(*   db             the SQLite file behind DatabaseMCPServer and the       *)
(*                  number of its open connections                         *)
(*   reply          the last call of DatabaseMCPServer.call_tool           *)
(*   scope          the position of a caller of DatabaseMCPClient relative *)
(*                  to its "async with" block                              *)
(*   direct_call    the last call made on a DatabaseMCPClient directly,    *)
(*                  with the state of the backend when it was made         *)
(***************************************************************************)
VARIABLES variant, backend, session, connected, mcp_connected, closer, running,
          pc, st, loc, result, http, log, ninv, adv_in, adv_out,
          db, reply, scope, direct_call

client_vars == <<session, connected, mcp_connected>>
inv_vars == <<pc, st, loc, result, http, log, ninv>>
adv_vars == <<adv_in, adv_out>>
server_vars == <<db, reply>>
caller_vars == <<scope, direct_call>>
vars == <<variant, backend, session, connected, mcp_connected, closer, running,
          pc, st, loc, result, http, log, ninv, adv_in, adv_out,
          server_vars, caller_vars>>

NoResult == [pytype |-> "none"]
EmptySql == <<>>

\* execute(): initial_state
InitialState(v, query, context) ==
    IF v = "gemini"
    THEN [query |-> query, reasoning |-> "", sql_query |-> EmptySql,
          execution_result |-> NoneVal, response |-> "",
          chart_description |-> "", context |-> context]
    ELSE [query |-> query, reasoning |-> "", sql_query |-> EmptySql,
          execution_result |-> NoneVal, response |-> "", context |-> context]

(***************************************************************************)
(* What each stage returns: {**state, field: value}.                       *)
(***************************************************************************)
\* A mutant of reason's return: the state is rebuilt and the context is lost.
ReasonDropsContext(state, reasoning) ==
    [state EXCEPT !.reasoning = reasoning, !.context = EmptyDict]

ReasonReturn(state, reasoning) == [state EXCEPT !.reasoning = reasoning]

ActionReturn(state, sql_query, execution_result) ==
    [state EXCEPT !.sql_query = sql_query, !.execution_result = execution_result]

ObserveReturn(state, response) == [state EXCEPT !.response = response]

VisualizeReturn(state, chart_description) ==
    [state EXCEPT !.chart_description = chart_description]

\* A mutant of execute's return: the raw execution result is replaced by None.
ExecuteReturnsNoData(v, state) ==
    [response |-> state.response, sql_generated |-> state.sql_query,
     data |-> NoneVal, reasoning |-> state.reasoning]

\* What execute() returns, per agent class.
ExecuteReturn(v, state) ==
    IF v = "gemini"
    THEN [response |-> state.response, sql_generated |-> state.sql_query,
          data |-> state.execution_result, reasoning |-> state.reasoning,
          chart_description |-> Get(state, "chart_description", "")]
    ELSE IF v = "mock"
    THEN [response |-> state.response, sql_generated |-> state.sql_query,
          data |-> IF IsDict(state.execution_result)
                   THEN state.execution_result
                   ELSE [rows |-> state.execution_result],
          reasoning |-> state.reasoning]
    ELSE [response |-> state.response, sql_generated |-> state.sql_query,
          data |-> state.execution_result, reasoning |-> state.reasoning]

(***************************************************************************)
(* The log of an invocation.                                               *)
(***************************************************************************)
StageEvent(name) == [ev |-> "stage", name |-> name]
LlmEvent(stage, ok, input, output) ==
    [ev |-> "llm", stage |-> stage, ok |-> ok, input |-> input, output |-> output]
GatewayRaised(message, sql) == [ev |-> "gateway_raised", message |-> message, sql |-> sql]
GatewayAnswer(value) == [ev |-> "gateway_answer", value |-> value]
ConnectEvent(stage) == [ev |-> "connect", stage |-> stage]
SchemaEvent(stage) == [ev |-> "get_schema", stage |-> stage]
ToolEvent(sql, sent) == [ev |-> "execute_query", sql |-> sql, sent |-> sent]
LocalQueryEvent(sql) == [ev |-> "local_query", sql |-> sql]

Count(seq, Test(_)) == Len(SelectSeq(seq, Test))
IsLlm(e) == e.ev = "llm"
IsTool(e) == e.ev = "execute_query"
IsStage(e) == e.ev = "stage"
IsRaised(e) == e.ev = "gateway_raised"
IsAnswer(e) == e.ev = "gateway_answer"
Stages(l) == [j \in 1..Len(SelectSeq(l, IsStage)) |-> SelectSeq(l, IsStage)[j].name]
LlmCalls(l) == SelectSeq(l, IsLlm)
ToolCalls(l) == SelectSeq(l, IsTool)

\* The edges of the workflow: reason -> action -> observe (-> visualize) -> END
StageOrder(v) ==
    IF v = "gemini"
    THEN <<"reason", "action", "observe", "visualize">>
    ELSE <<"reason", "action", "observe">>

\* A mutant of the workflow: an edge leads from observe back to action.
NextNodeLoopsBack(v, stage) ==
    IF stage = "observe" THEN "action"
    ELSE IF stage = "reason" THEN "action"
    ELSE IF stage = "action" THEN "observe"
    ELSE "END"

\* The node after `stage`, following add_edge; "END" after the last one.
NextNode(v, stage) ==
    LET order == StageOrder(v)
        k == CHOOSE j \in 1..Len(order) : order[j] = stage
    IN  IF k = Len(order) THEN "END" ELSE order[k + 1]

(***************************************************************************)
(* Positions of an invocation.  A node of the workflow starts at the       *)
(* position that bears its name; the other positions are the awaits and    *)
(* the calls inside a node.                                                *)
(***************************************************************************)
NodePcs == {"reason", "action", "observe", "visualize"}
HealthPc(p) ==
    CASE p = "reason" -> "reason_health"
      [] p = "action" -> "action_s_health"
      [] p = "action_ensure" -> "action_health"
CallPc(p) ==
    CASE p \in {"reason", "reason_health"} -> "reason_getschema"
      [] p \in {"action", "action_s_health"} -> "action_getschema"
      [] p \in {"action_ensure", "action_health"} -> "action_call"
SchemaWaitPc(p) == IF p = "reason_getschema" THEN "reason_schema" ELSE "action_schema"
LlmPc(p) ==
    IF p \in {"reason_getschema", "reason_schema"} THEN "reason_llm" ELSE "action_llm"
StageOf(p) ==
    CASE p \in {"reason", "reason_health", "reason_getschema", "reason_schema",
                "reason_llm"} -> "reason"
      [] p \in {"observe"} -> "observe"
      [] p \in {"visualize"} -> "visualize"
      [] OTHER -> "action"

CanRun(me) == running \in {0, me}
\* _make_request: if not self.session: self.session = aiohttp.ClientSession()
SessionForRequest == IF session = "none" THEN "open" ELSE session
\* What an awaited request can end with: the JSON of the response when the
\* backend answers; an exception when it is unreachable or the session was
\* closed under the request.
CanAnswer == backend # "down"
CanRaise == backend = "down" \/ session # "open"

\* The log with the stage event of a node that starts at this step.
Entered(i) ==
    IF pc[i] \in NodePcs THEN Append(log[i], StageEvent(pc[i])) ELSE log[i]

\* A node returned `state`: its successor starts, or execute() returns.
NodeDone(i, stage, state, newlog) ==
    /\ st' = [st EXCEPT ![i] = state]
    /\ log' = [log EXCEPT ![i] = newlog]
    /\ running' = 0
    /\ IF NextNode(variant, stage) = "END"
       THEN /\ pc' = [pc EXCEPT ![i] = "returned"]
            /\ result' = [result EXCEPT ![i] = ExecuteReturn(variant, state)]
       ELSE /\ pc' = [pc EXCEPT ![i] = NextNode(variant, stage)]
            /\ UNCHANGED result

\* A mutant of a stage: the exception of the model call is swallowed and
\* the state as it is is returned.
NodeSwallows(i, newlog) ==
    /\ pc' = [pc EXCEPT ![i] = "returned"]
    /\ result' = [result EXCEPT ![i] = ExecuteReturn(variant, st[i])]
    /\ log' = [log EXCEPT ![i] = newlog]
    /\ running' = 0
    /\ UNCHANGED st

\* A node raised: the exception leaves execute().
NodeRaised(i, newlog) ==
    /\ pc' = [pc EXCEPT ![i] = "raised"]
    /\ log' = [log EXCEPT ![i] = newlog]
    /\ running' = 0
    /\ UNCHANGED <<st, result>>

(***************************************************************************)
(* execute(query, context): the HTTP caller starts an invocation.          *)
(***************************************************************************)
Execute(i, query, context) ==
    /\ pc[i] = "idle"
    /\ CanRun(i)
    /\ ninv < MaxInvocations
    /\ ninv' = ninv + 1
    /\ pc' = [pc EXCEPT ![i] = "reason"]
    /\ st' = [st EXCEPT ![i] = InitialState(variant, query, context)]
    /\ loc' = [loc EXCEPT ![i] = [sql |-> EmptySql, schema |-> "none"]]
    /\ result' = [result EXCEPT ![i] = NoResult]
    /\ http' = [http EXCEPT ![i] = "none"]
    /\ log' = [log EXCEPT ![i] = <<>>]
    /\ running' = 0
    /\ UNCHANGED <<variant, backend, session, connected, mcp_connected, closer,
                   adv_in, adv_out,
                   server_vars, caller_vars>>

\* A mutant of the connectivity check: the flag is set in the step that reads
\* it, before connect() is awaited.
EnsureConnectedSetsFlagAtCheck(i) ==
    /\ CanRun(i)
    /\ \/ pc[i] \in {"reason", "action"} /\ variant = "gemini"
       \/ pc[i] = "action_ensure"
    /\ IF mcp_connected
       THEN /\ pc' = [pc EXCEPT ![i] = CallPc(pc[i])]
            /\ running' = i
            /\ log' = [log EXCEPT ![i] = Entered(i)]
            /\ UNCHANGED <<session, connected, mcp_connected>>
       ELSE /\ session' = SessionForRequest
            /\ log' = [log EXCEPT ![i] = Append(Entered(i), ConnectEvent(StageOf(pc[i])))]
            /\ mcp_connected' = TRUE
            /\ IF SessionForRequest = "closed"
               THEN /\ connected' = FALSE
                    /\ pc' = [pc EXCEPT ![i] = CallPc(pc[i])]
                    /\ running' = i
               ELSE /\ pc' = [pc EXCEPT ![i] = HealthPc(pc[i])]
                    /\ running' = 0
                    /\ UNCHANGED connected
    /\ UNCHANGED <<variant, backend, closer, st, loc, result, http, ninv,
                   adv_in, adv_out,
                   server_vars, caller_vars>>

(***************************************************************************)
(* if not self.mcp_connected: await self.mcp_client.connect();             *)
(* self.mcp_connected = True -- in SQLAgentGemini._get_database_schema     *)
(* (reason and action) and in the try block of action.  connect() sends    *)
(* the health check and suspends; on a closed session the request raises   *)
(* at once, connect() swallows it and the flag is set all the same.        *)
(***************************************************************************)
EnsureConnected(i) ==
    /\ CanRun(i)
    /\ \/ pc[i] \in {"reason", "action"} /\ variant = "gemini"
       \/ pc[i] = "action_ensure"
    /\ IF mcp_connected
       THEN /\ pc' = [pc EXCEPT ![i] = CallPc(pc[i])]
            /\ running' = i
            /\ log' = [log EXCEPT ![i] = Entered(i)]
            /\ UNCHANGED <<session, connected, mcp_connected>>
       ELSE /\ session' = SessionForRequest
            /\ log' = [log EXCEPT ![i] = Append(Entered(i), ConnectEvent(StageOf(pc[i])))]
            /\ IF SessionForRequest = "closed"
               THEN /\ connected' = FALSE
                    /\ mcp_connected' = TRUE
                    /\ pc' = [pc EXCEPT ![i] = CallPc(pc[i])]
                    /\ running' = i
               ELSE /\ pc' = [pc EXCEPT ![i] = HealthPc(pc[i])]
                    /\ running' = 0
                    /\ UNCHANGED <<connected, mcp_connected>>
    /\ UNCHANGED <<variant, backend, closer, st, loc, result, http, ninv,
                   adv_in, adv_out,
                   server_vars, caller_vars>>

\* A mutant of connect(): any answer of the health check counts as connected.
ConnectAcceptsAnyStatus(outcome) == outcome # "raise"

\* connect(): health.get("status") == "healthy" sets connected; anything
\* else raises, and the except branch sets connected = False.
ConnectedAfter(outcome) == outcome = "healthy"

HealthOutcomes ==
    (IF CanRaise THEN {"raise"} ELSE {}) \cup (IF CanAnswer THEN {backend} ELSE {})

\* The health check of connect() ends; connect() returns and the agent sets
\* mcp_connected without looking at the outcome.
HealthResponse(i) ==
    /\ CanRun(i)
    /\ pc[i] \in {"reason_health", "action_s_health", "action_health"}
    /\ \E outcome \in HealthOutcomes :
          connected' = ConnectedAfter(outcome)
    /\ mcp_connected' = TRUE
    /\ pc' = [pc EXCEPT ![i] = CallPc(pc[i])]
    /\ running' = i
    /\ UNCHANGED <<variant, backend, session, closer, st, loc, result, http, log,
                   ninv, adv_in, adv_out,
                   server_vars, caller_vars>>

(***************************************************************************)
(* SQLAgentGemini._get_database_schema: schema = await                     *)
(* self.mcp_client.get_schema(); every exception is turned into a text.    *)
(***************************************************************************)
GetSchemaSend(i) ==
    /\ CanRun(i)
    /\ pc[i] \in {"reason_getschema", "action_getschema"}
    /\ session' = SessionForRequest
    /\ log' = [log EXCEPT ![i] = Append(log[i], SchemaEvent(StageOf(pc[i])))]
    /\ IF SessionForRequest = "closed"
       THEN /\ pc' = [pc EXCEPT ![i] = LlmPc(pc[i])]
            /\ loc' = [loc EXCEPT ![i].schema = "unavailable"]
            /\ running' = i
       ELSE /\ pc' = [pc EXCEPT ![i] = SchemaWaitPc(pc[i])]
            /\ running' = 0
            /\ UNCHANGED loc
    /\ UNCHANGED <<variant, backend, connected, mcp_connected, closer, st, result,
                   http, ninv, adv_in, adv_out,
                   server_vars, caller_vars>>

GetSchemaResponse(i) ==
    /\ CanRun(i)
    /\ pc[i] \in {"reason_schema", "action_schema"}
    /\ \/ CanAnswer /\ loc' = [loc EXCEPT ![i].schema = "described"]
       \/ CanRaise /\ loc' = [loc EXCEPT ![i].schema = "unavailable"]
    /\ pc' = [pc EXCEPT ![i] = LlmPc(pc[i])]
    /\ running' = i
    /\ UNCHANGED <<variant, backend, session, connected, mcp_connected, closer, st,
                   result, http, log, ninv, adv_in, adv_out,
                   server_vars, caller_vars>>

(***************************************************************************)
(* The language-model calls.  self.llm.invoke(messages) returns a text or  *)
(* raises; no stage catches what it raises.  MockLLM never raises and      *)
(* answers from its table.                                                 *)
(***************************************************************************)
\* MockLLM.invoke
MockLLMInvoke(query) ==
    IF query = "users" THEN "mock reasoning: users" ELSE "mock reasoning: default"

Prompt(parts) == parts

\* reason: response = self.llm.invoke(messages); return {**state, "reasoning": ...}
ReasonLlm(i) ==
    /\ CanRun(i)
    /\ \/ pc[i] = "reason_llm"
       \/ pc[i] = "reason" /\ variant # "gemini"
    /\ LET input == Prompt(<<Lit(st[i].query)>>)
       IN  \/ /\ variant # "mock"
              /\ \E text \in LlmTexts :
                    NodeDone(i, "reason", ReasonReturn(st[i], text),
                             Append(Entered(i), LlmEvent("reason", TRUE, input, text)))
           \/ /\ variant = "mock"
              /\ NodeDone(i, "reason", ReasonReturn(st[i], MockLLMInvoke(st[i].query)),
                          Append(Entered(i),
                                 LlmEvent("reason", TRUE, input, MockLLMInvoke(st[i].query))))
           \/ /\ variant # "mock"
              /\ NodeRaised(i, Append(Entered(i), LlmEvent("reason", FALSE, input, "")))
    /\ UNCHANGED <<variant, backend, session, connected, mcp_connected, closer, loc,
                   http, ninv, adv_in, adv_out,
                   server_vars, caller_vars>>

\* action: response = self.llm.invoke(messages);
\* sql_query = self._extract_sql_query(response.content)
ActionLlm(i) ==
    /\ CanRun(i)
    /\ \/ pc[i] = "action_llm"
       \/ pc[i] = "action" /\ variant = "openai"
    /\ LET input == Prompt(<<Lit(st[i].query), Lit(st[i].reasoning)>>)
       IN  \/ \E text \in SqlReplies :
                 /\ loc' = [loc EXCEPT ![i].sql = _extract_sql_query(text)]
                 /\ pc' = [pc EXCEPT ![i] = "action_ensure"]
                 /\ log' = [log EXCEPT ![i] =
                              Append(Entered(i), LlmEvent("action", TRUE, input, text))]
                 /\ running' = i
                 /\ UNCHANGED <<st, result>>
           \/ /\ NodeRaised(i, Append(Entered(i), LlmEvent("action", FALSE, input, <<>>)))
              /\ UNCHANGED loc
    /\ UNCHANGED <<variant, backend, session, connected, mcp_connected, closer,
                   http, ninv, adv_in, adv_out,
                   server_vars, caller_vars>>

\* SQLAgentMock.action: the statement comes from the query and runs on the
\* local store; what the store raises becomes the error value.
MockAction(i) ==
    /\ CanRun(i)
    /\ pc[i] = "action"
    /\ variant = "mock"
    /\ LET sql_query == _generate_sql_from_query(st[i].query)
           newlog == Append(Entered(i), LocalQueryEvent(sql_query))
       IN  \/ \E rows \in MockResults :
                 NodeDone(i, "action", ActionReturn(st[i], sql_query, rows), newlog)
           \/ NodeDone(i, "action",
                       ActionReturn(st[i], sql_query,
                                    ErrorResult(<<"no such table">>, sql_query)),
                       newlog)
    /\ loc' = [loc EXCEPT ![i].sql = _generate_sql_from_query(st[i].query)]
    /\ UNCHANGED <<variant, backend, session, connected, mcp_connected, closer,
                   http, ninv, adv_in, adv_out,
                   server_vars, caller_vars>>

(***************************************************************************)
(* execution_result = await self.mcp_client.call_tool("execute_query",     *)
(* {"sql": sql_query}) inside the try block of action.                     *)
(***************************************************************************)
\* A mutant of call_tool: the connected flag is not checked.
CallToolUnchecked(is_connected) == FALSE

\* call_tool: if not self.connected: raise Exception(not connected)
CallToolRefuses(is_connected) == ~is_connected

\* A mutant of action's except branch: the exception is not caught and
\* leaves the stage.
ActionLetsItRaise(i, message, newlog) ==
    /\ NodeRaised(i, Append(newlog, GatewayRaised(message, loc[i].sql)))

\* action: except Exception as e: execution_result = {"type": "error", ...};
\* the stage returns the state with sql_query and this value.
ActionExcept(i, message, newlog) ==
    /\ NodeDone(i, "action",
                ActionReturn(st[i], loc[i].sql, ErrorResult(message, loc[i].sql)),
                Append(newlog, GatewayRaised(message, loc[i].sql)))

CallTool(i) ==
    /\ CanRun(i)
    /\ pc[i] = "action_call"
    /\ IF CallToolRefuses(connected)
       THEN /\ ActionExcept(i, NotConnectedError,
                            Append(log[i], ToolEvent(loc[i].sql, FALSE)))
            /\ UNCHANGED session
       ELSE /\ session' = SessionForRequest
            /\ IF SessionForRequest = "closed"
               THEN ActionExcept(i, ToolCallFailed(RequestFailed(<<"session is closed">>)),
                                 Append(log[i], ToolEvent(loc[i].sql, FALSE)))
               ELSE /\ pc' = [pc EXCEPT ![i] = "action_query"]
                    /\ log' = [log EXCEPT ![i] = Append(log[i], ToolEvent(loc[i].sql, TRUE))]
                    /\ running' = 0
                    /\ UNCHANGED <<st, result>>
    /\ UNCHANGED <<variant, backend, connected, mcp_connected, closer, loc,
                   http, ninv, adv_in, adv_out,
                   server_vars, caller_vars>>

\* The request of call_tool ends: its JSON is returned as it is, and what
\* _make_request raises is wrapped by call_tool and caught by action.
QueryResponse(i) ==
    /\ CanRun(i)
    /\ pc[i] = "action_query"
    /\ \/ /\ CanAnswer
          /\ \E response \in QueryResponses :
                NodeDone(i, "action", ActionReturn(st[i], loc[i].sql, response),
                         Append(log[i], GatewayAnswer(response)))
       \/ /\ CanRaise
          /\ ActionExcept(i, ToolCallFailed(RequestFailed(<<"cannot connect">>)), log[i])
    /\ UNCHANGED <<variant, backend, session, connected, mcp_connected, closer, loc,
                   http, ninv, adv_in, adv_out,
                   server_vars, caller_vars>>

(***************************************************************************)
(* observe and visualize.                                                  *)
(***************************************************************************)
\* What observe puts in its prompt for the result.
ObserveInput(v, execution_result) ==
    IF v = "gemini"
    THEN _format_execution_result(execution_result).text
    ELSE <<Json(execution_result)>>

ObserveLlm(i) ==
    /\ CanRun(i)
    /\ pc[i] = "observe"
    /\ variant # "mock"
    /\ LET input == Prompt(ObserveInput(variant, st[i].execution_result))
       IN  \/ \E text \in LlmTexts :
                 NodeDone(i, "observe", ObserveReturn(st[i], text),
                          Append(Entered(i), LlmEvent("observe", TRUE, input, text)))
           \/ NodeRaised(i, Append(Entered(i), LlmEvent("observe", FALSE, input, "")))
    /\ UNCHANGED <<variant, backend, session, connected, mcp_connected, closer, loc,
                   http, ninv, adv_in, adv_out,
                   server_vars, caller_vars>>

\* SQLAgentMock.observe builds the response itself.
MockResponse(execution_result) ==
    IF IsDict(execution_result) /\ Get(execution_result, "type", "") = "error"
    THEN "mock response: error"
    ELSE "mock response: rows"

MockObserve(i) ==
    /\ CanRun(i)
    /\ pc[i] = "observe"
    /\ variant = "mock"
    /\ NodeDone(i, "observe",
                ObserveReturn(st[i], MockResponse(st[i].execution_result)), Entered(i))
    /\ UNCHANGED <<variant, backend, session, connected, mcp_connected, closer, loc,
                   http, ninv, adv_in, adv_out,
                   server_vars, caller_vars>>

\* A mutant of visualize: the test of should_generate_chart is inverted.
VisualizeSkipsWhenChartable(execution_result) ==
    _should_generate_chart(execution_result)

\* visualize: if not should_generate_chart: return the sentinel
VisualizeSkips(execution_result) == ~_should_generate_chart(execution_result)

\* SQLAgentGemini.visualize
Visualize(i) ==
    /\ CanRun(i)
    /\ pc[i] = "visualize"
    /\ IF VisualizeSkips(st[i].execution_result)
       THEN NodeDone(i, "visualize", VisualizeReturn(st[i], NoChartNeeded), Entered(i))
       ELSE LET input == Prompt(_prepare_chart_data(st[i].execution_result))
            IN  \/ \E text \in LlmTexts :
                      NodeDone(i, "visualize", VisualizeReturn(st[i], text),
                               Append(Entered(i), LlmEvent("visualize", TRUE, input, text)))
                \/ NodeRaised(i, Append(Entered(i), LlmEvent("visualize", FALSE, input, "")))
    /\ UNCHANGED <<variant, backend, session, connected, mcp_connected, closer, loc,
                   http, ninv, adv_in, adv_out,
                   server_vars, caller_vars>>

(***************************************************************************)
(* execute_agent (main.py, main_gemini.py, main_mock.py): the result       *)
(* becomes the response; an exception becomes HTTPException(500).          *)
(***************************************************************************)
HttpStatus(outcome) == IF outcome = "returned" THEN "200" ELSE "500"

HttpRespond(i) ==
    /\ CanRun(i)
    /\ pc[i] \in {"returned", "raised"}
    /\ http' = [http EXCEPT ![i] = HttpStatus(pc[i])]
    /\ pc' = [pc EXCEPT ![i] = "idle"]
    /\ UNCHANGED <<variant, backend, session, connected, mcp_connected, closer,
                   running, st, loc, result, log, ninv, adv_in, adv_out,
                   server_vars, caller_vars>>

(***************************************************************************)
(* close(): if self.mcp_connected: await self.mcp_client.disconnect();     *)
(* self.mcp_connected = False.  disconnect() awaits session.close() when   *)
(* there is a session, then clears session and connected.                  *)
(***************************************************************************)
CloseStart ==
    /\ running = 0
    /\ closer = "idle"
    /\ mcp_connected
    /\ IF session # "none"
       THEN /\ session' = "closed"
            /\ closer' = "closing"
            /\ UNCHANGED <<connected, mcp_connected>>
       ELSE /\ connected' = FALSE
            /\ mcp_connected' = FALSE
            /\ UNCHANGED <<session, closer>>
    /\ running' = 0
    /\ UNCHANGED <<variant, backend, pc, st, loc, result, http, log, ninv,
                   adv_in, adv_out,
                   server_vars, caller_vars>>

\* A mutant of disconnect(): the connected flag is not cleared.
DisconnectKeepsConnected ==
    /\ running = 0
    /\ closer = "closing"
    /\ session' = "none"
    /\ mcp_connected' = FALSE
    /\ closer' = "idle"
    /\ running' = 0
    /\ UNCHANGED <<variant, backend, connected, pc, st, loc, result, http, log, ninv,
                   adv_in, adv_out,
                   server_vars, caller_vars>>

CloseFinish ==
    /\ running = 0
    /\ closer = "closing"
    /\ session' = "none"
    /\ connected' = FALSE
    /\ mcp_connected' = FALSE
    /\ closer' = "idle"
    /\ running' = 0
    /\ UNCHANGED <<variant, backend, pc, st, loc, result, http, log, ninv,
                   adv_in, adv_out,
                   server_vars, caller_vars>>

\* The backend becomes healthy, unhealthy or unreachable.
BackendChange(b) ==
    /\ running = 0
    /\ b # backend
    /\ backend' = b
    /\ UNCHANGED <<variant, session, connected, mcp_connected, closer, running,
                   pc, st, loc, result, http, log, ninv, adv_in, adv_out,
                   server_vars, caller_vars>>

(***************************************************************************)
(* DatabaseMCPServer: the SQLite file, the statements sent to it and the   *)
(* four tools.  A table holds the set of the ids of its rows; a statement  *)
(* is its text together with what SQLite does when it executes it.  A      *)
(* connection works on a copy of the tables: commit writes the copy to the *)
(* file, close drops it.                                                   *)
(***************************************************************************)
MaxStoreRows == 3
RowIds == 1..MaxStoreRows
DbPath == "data/ai_agent.db"

Column(name, type, not_null, primary_key) ==
    [name |-> name, type |-> type, not_null |-> not_null, primary_key |-> primary_key]

\* _create_tables, in the order of creation
TableOrder == <<"users", "products", "orders">>
Tables == {TableOrder[j] : j \in 1..Len(TableOrder)}
TableColumns ==
    [users |-> <<Column("id", "INTEGER", FALSE, TRUE),
                 Column("name", "TEXT", TRUE, FALSE),
                 Column("email", "TEXT", FALSE, FALSE),
                 Column("age", "INTEGER", FALSE, FALSE),
                 Column("created_at", "TIMESTAMP", FALSE, FALSE)>>,
     products |-> <<Column("id", "INTEGER", FALSE, TRUE),
                    Column("name", "TEXT", TRUE, FALSE),
                    Column("price", "REAL", TRUE, FALSE),
                    Column("category", "TEXT", FALSE, FALSE),
                    Column("stock", "INTEGER", FALSE, FALSE),
                    Column("created_at", "TIMESTAMP", FALSE, FALSE)>>,
     orders |-> <<Column("id", "INTEGER", FALSE, TRUE),
                  Column("user_id", "INTEGER", FALSE, FALSE),
                  Column("product_id", "INTEGER", FALSE, FALSE),
                  Column("quantity", "INTEGER", FALSE, FALSE),
                  Column("total_price", "REAL", FALSE, FALSE),
                  Column("order_date", "TIMESTAMP", FALSE, FALSE)>>]
ColumnNames(t) == [j \in 1..Len(TableColumns[t]) |-> TableColumns[t][j].name]

\* The Python type of a value read from a column of the declared type.
PyTypeOf(type) ==
    CASE type = "INTEGER" -> "int"
      [] type = "REAL" -> "float"
      [] OTHER -> "str"

\* dict(row) of the row with the given id
RowOf(t, id) ==
    [j \in 1..Len(TableColumns[t]) |->
        Item(TableColumns[t][j].name, Cell(PyTypeOf(TableColumns[t][j].type), id))]

\* The ids of a table in ascending order: the order of a scan by rowid.
RECURSIVE Ascending(_)
Ascending(ids) ==
    IF ids = {} THEN <<>>
    ELSE LET m == CHOOSE x \in ids : \A y \in ids : x <= y
         IN  <<m>> \o Ascending(ids \ {m})
RowsOf(tables, t) ==
    LET ids == Ascending(tables[t]) IN [j \in 1..Len(ids) |-> RowOf(t, ids[j])]

\* _insert_sample_data, scaled to the bound
SampleTables == [users |-> {1, 2}, products |-> {1}, orders |-> {1}]

\* str.upper on the letters of the statements
UpperChar(c) ==
    CASE c = "s" -> "S" [] c = "e" -> "E" [] c = "l" -> "L" [] c = "c" -> "C"
      [] c = "t" -> "T" [] c = "i" -> "I" [] c = "n" -> "N" [] c = "r" -> "R"
      [] c = "d" -> "D" [] c = "w" -> "W" [] c = "h" -> "H"
      [] OTHER -> c
Upper(s) == [j \in 1..Len(s) |-> UpperChar(s[j])]
SelectKeyword == <<"S", "E", "L", "E", "C", "T">>
\* What SQLite does with a statement: read the rows of a table, insert rows
\* with the given ids one after the other (a duplicate id violates the primary
\* key), delete the rows with the given ids, or reject the text.
Sem(kind, table, ids) == [kind |-> kind, table |-> table, ids |-> ids]
Sql(text, sem) == [text |-> text, sem |-> sem]

Leads == {<<>>, <<" ">>, <<"\n", " ">>}
SelectWords == {SelectKeyword, <<"s", "e", "l", "e", "c", "t">>,
                <<"S", "e", "l", "e", "c", "t">>}
InsertWords == {<<"I", "N", "S", "E", "R", "T">>, <<"i", "n", "s", "e", "r", "t">>}
DeleteWord == <<"D", "E", "L", "E", "T", "E">>
WithWord == <<"W", "I", "T", "H">>
NoSuchTable == "nosuch"

ReadStatements ==
    {Sql(lead \o kw \o <<" * FROM ", "users", "\n">>, Sem("read", "users", <<>>)) :
        lead \in Leads, kw \in SelectWords}
        \cup {Sql(SelectKeyword \o <<" * FROM ", t>>, Sem("read", t, <<>>)) :
                 t \in {"products", NoSuchTable}}
WithStatements ==
    {Sql(WithWord \o <<" t AS (SELECT * FROM users) SELECT * FROM t">>,
         Sem("read", "users", <<>>))}
InsertStatements ==
    {Sql(kw \o <<" INTO ", "users", " VALUES ", ToString(k)>>, Sem("insert", "users", <<k>>)) :
        kw \in InsertWords, k \in RowIds}
        \cup {Sql(<<" ">> \o kw \o <<" INTO ", t, " VALUES ", "2">>, Sem("insert", t, <<2>>)) :
                 kw \in InsertWords, t \in {"products", NoSuchTable}}
InsertOrFailStatements ==
    {Sql(<<"I", "N", "S", "E", "R", "T", " OR FAIL INTO ", "users", " VALUES ",
           ToString(k[1]), ToString(k[2])>>, Sem("insert_or_fail", "users", k)) :
        k \in {kk \in RowIds \X RowIds : kk[1] # kk[2]}}
DeleteStatements ==
    {Sql(DeleteWord \o <<" FROM ", "users", " WHERE id IN ", ToString(k)>>,
         Sem("delete", "users", k)) : k \in {<<j>> : j \in RowIds} \cup {<<1, 2>>}}
        \cup {Sql(DeleteWord \o <<" FROM ", "products">>, Sem("delete", "products", <<1, 2>>))}
MalformedStatements ==
    {Sql(<<"S", "E", "L", "E", "C", " * FROM users">>, Sem("syntax", "users", <<>>)),
     Sql(SelectKeyword \o <<" FROM FROM">>, Sem("syntax", "users", <<>>)),
     Sql(<<"D", "R", "O", "P">>, Sem("syntax", "users", <<>>))}
Statements ==
    ReadStatements \cup WithStatements \cup InsertStatements
        \cup InsertOrFailStatements \cup DeleteStatements \cup MalformedStatements

SeqRange(s) == {s[j] : j \in 1..Len(s)}
Executed(tables, rows, rowcount) ==
    [ok |-> TRUE, tables |-> tables, rows |-> rows, rowcount |-> rowcount, cause |-> ""]
Failed(tables, cause) ==
    [ok |-> FALSE, tables |-> tables, rows |-> <<>>, rowcount |-> -1, cause |-> cause]

RECURSIVE InsertEach(_, _)
InsertEach(have, ids) ==
    IF ids = <<>> THEN [ok |-> TRUE, ids |-> have]
    ELSE IF Head(ids) \in have THEN [ok |-> FALSE, ids |-> have]
    ELSE InsertEach(have \cup {Head(ids)}, Tail(ids))

\* cursor.execute(sql) on a connection whose copy of the tables is given: the
\* copy after the statement, the rows it yields and cursor.rowcount.  A failed
\* INSERT undoes its own changes; a failed INSERT OR FAIL keeps the rows it
\* inserted before the conflict.
SqliteExecute(tables, sem) ==
    IF sem.kind = "syntax" THEN Failed(tables, "syntax error")
    ELSE IF sem.table \notin Tables THEN Failed(tables, "no such table")
    ELSE IF sem.kind = "read" THEN Executed(tables, RowsOf(tables, sem.table), -1)
    ELSE IF sem.kind = "delete"
    THEN Executed([tables EXCEPT ![sem.table] = @ \ SeqRange(sem.ids)], <<>>,
                  Cardinality(tables[sem.table] \cap SeqRange(sem.ids)))
    ELSE LET r == InsertEach(tables[sem.table], sem.ids)
         IN  IF r.ok
             THEN Executed([tables EXCEPT ![sem.table] = r.ids], <<>>, Len(sem.ids))
             ELSE IF sem.kind = "insert_or_fail"
             THEN Failed([tables EXCEPT ![sem.table] = r.ids], "UNIQUE constraint failed")
             ELSE Failed(tables, "UNIQUE constraint failed")

\* _get_connection, conn.commit() and conn.close()
_get_connection(d) == [d EXCEPT !.open = @ + 1]
ConnCommit(d, copy) == [d EXCEPT !.tables = copy]
ConnClose(d) == [d EXCEPT !.open = @ - 1]

Returned(d, value) == [db |-> d, raised |-> FALSE, value |-> value, message |-> <<>>]
Raised(d, message) == [db |-> d, raised |-> TRUE, value |-> NoneVal, message |-> message]

SqlError == "SQL execution error"
TableInfoError == "table info error"
SampleDataError == "sample data error"
TableMissing == "table does not exist"
UnknownTool == "unknown tool"
QuerySucceeded == "query succeeded"

\* A mutant of the classification: the keyword is compared as it is written.
IsSelectTextAsWritten(text) == StartsWith(Strip(text), SelectKeyword)
\* sql.strip().upper().startswith("SELECT")
IsSelectText(text) == StartsWith(Upper(Strip(text)), SelectKeyword)

\* A mutant of _execute_query: the changes are committed before the outcome
\* of the statement is known.
ExecuteQueryCommitsAlways(d, sql) ==
    LET conn == _get_connection(d)
        r == SqliteExecute(conn.tables, sql.sem)
    IN  IF r.ok
        THEN IF IsSelectText(sql.text)
             THEN Returned(ConnClose(conn),
                           [type |-> "select", columns |-> ColumnNames(sql.sem.table),
                            rows |-> r.rows, row_count |-> Len(r.rows)])
             ELSE Returned(ConnClose(ConnCommit(conn, r.tables)),
                           [type |-> "dml", affected_rows |-> r.rowcount,
                            message |-> QuerySucceeded])
        ELSE Raised(ConnClose(ConnCommit(conn, r.tables)), <<SqlError, r.cause>>)

\* DatabaseMCPServer._execute_query
_execute_query(d, sql) ==
    LET conn == _get_connection(d)
        r == SqliteExecute(conn.tables, sql.sem)
    IN  IF r.ok
        THEN IF IsSelectText(sql.text)
             THEN Returned(ConnClose(conn),
                           [type |-> "select", columns |-> ColumnNames(sql.sem.table),
                            rows |-> r.rows, row_count |-> Len(r.rows)])
             ELSE Returned(ConnClose(ConnCommit(conn, r.tables)),
                           [type |-> "dml", affected_rows |-> r.rowcount,
                            message |-> QuerySucceeded])
        ELSE Raised(ConnClose(conn), <<SqlError, r.cause>>)

\* DatabaseMCPServer._get_database_schema (the server's)
ServerSchema(d) ==
    LET conn == _get_connection(d)
    IN  Returned(ConnClose(conn),
                 [database |-> DbPath,
                  tables |-> [t \in Tables |->
                                 [columns |-> TableColumns[t],
                                  row_count |-> Cardinality(conn.tables[t])]],
                  total_tables |-> Len(TableOrder)])

\* DatabaseMCPServer._get_table_info
_get_table_info(d, table_name) ==
    LET conn == _get_connection(d)
    IN  IF table_name \notin Tables
        THEN Raised(ConnClose(conn), <<TableInfoError, TableMissing, table_name>>)
        ELSE Returned(ConnClose(conn),
                      [table_name |-> table_name, columns |-> TableColumns[table_name],
                       row_count |-> Cardinality(conn.tables[table_name])])

\* SELECT * FROM t LIMIT ?: a negative limit is no limit
Limited(rows, limit) ==
    IF limit < 0 \/ limit >= Len(rows) THEN rows ELSE SubSeq(rows, 1, limit)

\* DatabaseMCPServer._get_sample_data
_get_sample_data(d, table_name, limit) ==
    LET conn == _get_connection(d)
    IN  IF table_name \notin Tables
        THEN Raised(ConnClose(conn), <<SampleDataError, TableMissing, table_name>>)
        ELSE LET rows == Limited(RowsOf(conn.tables, table_name), limit)
             IN  Returned(ConnClose(conn),
                          [table_name |-> table_name, columns |-> ColumnNames(table_name),
                           rows |-> rows, limit |-> limit, actual_count |-> Len(rows)])

DefaultLimit == 5
KeyError(key) == <<"KeyError", key>>

\* The body of the try block of DatabaseMCPServer.call_tool
Dispatch(d, name, arguments) ==
    IF name = "get_database_schema" THEN ServerSchema(d)
    ELSE IF name = "execute_query"
    THEN IF Has(arguments, "sql") THEN _execute_query(d, arguments.sql)
         ELSE Raised(d, KeyError("sql"))
    ELSE IF name = "get_table_info"
    THEN IF Has(arguments, "table_name") THEN _get_table_info(d, arguments.table_name)
         ELSE Raised(d, KeyError("table_name"))
    ELSE IF name = "get_sample_data"
    THEN IF Has(arguments, "table_name")
         THEN _get_sample_data(d, arguments.table_name,
                               Get(arguments, "limit", DefaultLimit))
         ELSE Raised(d, KeyError("table_name"))
    ELSE Raised(d, <<UnknownTool, name>>)

\* A mutant of call_tool: only the failures of the tools are caught, a missing
\* argument or an unknown name raises.
CallToolCatchesToolErrorsOnly(d, name, arguments) ==
    LET r == Dispatch(d, name, arguments)
    IN  IF r.raised /\ r.message[1] \in {SqlError, TableInfoError, SampleDataError}
        THEN Returned(r.db, [error |-> r.message])
        ELSE r

\* DatabaseMCPServer.call_tool: except Exception as e: return {"error": str(e)}
ServerCallTool(d, name, arguments) ==
    LET r == Dispatch(d, name, arguments)
    IN  IF r.raised THEN Returned(r.db, [error |-> r.message]) ELSE r

ToolNames == {"get_database_schema", "execute_query", "get_table_info", "get_sample_data"}
CalledNames == ToolNames \cup {"drop_table"}
CalledTables == {"users", "orders", NoSuchTable}
Limits == {0, 1}
QueryArguments == {[sql |-> q] : q \in Statements}
OtherArguments ==
    {EmptyDict, [sql |-> CHOOSE q \in MalformedStatements : TRUE]}
        \cup {[table_name |-> t] : t \in CalledTables}
        \cup {[table_name |-> t, limit |-> n] : t \in CalledTables, n \in Limits}
        \cup {[limit |-> n] : n \in Limits}
\* The calls made: execute_query with every argument mapping, the other names
\* with every mapping but the statements.
Calls ==
    ({"execute_query"} \X (QueryArguments \cup OtherArguments))
        \cup ((CalledNames \ {"execute_query"}) \X OtherArguments)

NoReply == [name |-> "none"]
FreshDb == [tables |-> SampleTables, open |-> 0]
NoOutcome == [op |-> "none"]

\* No call was made yet on the server or on a client used directly.
NoCalls ==
    /\ db = FreshDb
    /\ reply = NoReply
    /\ scope = "outside"
    /\ direct_call = NoOutcome

(***************************************************************************)
(* The specification of one agent serving one request at a time, with      *)
(* close() calls and backend changes at any await.                         *)
(***************************************************************************)
NoAdvice == [op |-> "none"]

Init ==
    /\ variant \in Variants
    /\ backend \in BackendStates
    /\ session = "none"
    /\ connected = FALSE
    /\ mcp_connected = FALSE
    /\ closer = "idle"
    /\ running = 0
    /\ pc = [i \in Slots |-> "idle"]
    /\ st = [i \in Slots |-> InitialState(variant, "users", EmptyDict)]
    /\ loc = [i \in Slots |-> [sql |-> EmptySql, schema |-> "none"]]
    /\ result = [i \in Slots |-> NoResult]
    /\ http = [i \in Slots |-> "none"]
    /\ log = [i \in Slots |-> <<>>]
    /\ ninv = 0
    /\ adv_in = NoneVal
    /\ adv_out = NoAdvice
    /\ NoCalls

Step(i) ==
    \/ \E query \in Queries, context \in Contexts : Execute(i, query, context)
    \/ EnsureConnected(i)
    \/ HealthResponse(i)
    \/ GetSchemaSend(i)
    \/ GetSchemaResponse(i)
    \/ ReasonLlm(i)
    \/ ActionLlm(i)
    \/ MockAction(i)
    \/ CallTool(i)
    \/ QueryResponse(i)
    \/ ObserveLlm(i)
    \/ MockObserve(i)
    \/ Visualize(i)
    \/ HttpRespond(i)

Next ==
    \/ Step(1)
    \/ CloseStart
    \/ CloseFinish
    \/ \E b \in BackendStates : BackendChange(b)

Spec == Init /\ [][Next]_vars

(***************************************************************************)
(* The helpers of the Gemini agent called directly on an execution result. *)
(* The results are drawn from every shape the repository produces or       *)
(* reads: None, an empty dict, a list of rows, the error value of the      *)
(* action stage, the error object and the results of the server, and the   *)
(* success-flagged shape, with and without its parts.                      *)
(***************************************************************************)
AdvisorColumns == {"id", "age", "name"}
AdvisorItems == {Item(k, Cell(ty, 1)) : k \in AdvisorColumns, ty \in CellTypes}
DistinctKeys(row) == \A a, b \in 1..Len(row) : a # b => row[a].k # row[b].k
AdvisorRows ==
    {row \in UNION {[1..n -> AdvisorItems] : n \in 1..MaxCols} : DistinctKeys(row)}
\* n rows, the first of which is `first`
RowsFrom(first, n) == [j \in 1..n |-> IF j = 1 THEN first ELSE SampleRow(j)]
AdvisorRowLists == {<<>>} \cup {RowsFrom(first, n) : first \in AdvisorRows, n \in 1..MaxRows}

\* Row lists around the 5 rows that _prepare_chart_data renders.
LongRowLists ==
    {RowsFrom(first, n) : first \in {SampleRow(1), IdOnlyRow(1)},
                          n \in (ChartSampleRows - 1)..MaxLongRows}

AdvisorInputs ==
    {NoneVal, EmptyDict, PyList(<<>>), PyList(SampleRows(2))}
    \cup {ErrorResult(NotConnectedError, <<"A">>),
          ErrorObject(SqlExecutionError(<<"no such table">>)),
          [type |-> "error", sql |-> <<"A">>],
          [type |-> "error", success |-> TRUE, row_count |-> 0, error |-> UnknownError]}
    \cup {DmlResult(n) : n \in 0..1}
    \cup {SelectResult(RowKeys(SampleRow(1)), rows) : rows \in AdvisorRowLists}
    \cup {[success |-> flag, data |-> [rows |-> rows], row_count |-> rc] :
             flag \in BOOLEAN, rows \in AdvisorRowLists, rc \in 0..MaxRowCount}
    \cup {[success |-> TRUE, data |-> [rows |-> rows]] : rows \in AdvisorRowLists}
    \cup {[success |-> TRUE, row_count |-> rc] : rc \in 0..MaxRowCount}
    \cup {[success |-> TRUE, data |-> PyList(SampleRows(2)), row_count |-> rc] :
             rc \in 0..MaxRowCount}
    \cup {[success |-> TRUE, data |-> DmlResult(1), row_count |-> rc] :
             rc \in 0..MaxRowCount}
    \cup {[success |-> TRUE, data |-> DmlResult(1)]}
    \cup {[success |-> TRUE, data |-> [rows |-> rows], row_count |-> Len(rows)] :
             rows \in LongRowLists}

AdvisorInit ==
    /\ variant = "gemini"
    /\ backend = "healthy"
    /\ session = "none"
    /\ connected = FALSE
    /\ mcp_connected = FALSE
    /\ closer = "idle"
    /\ running = 0
    /\ pc = [i \in Slots |-> "idle"]
    /\ st = [i \in Slots |-> InitialState("gemini", "users", EmptyDict)]
    /\ loc = [i \in Slots |-> [sql |-> EmptySql, schema |-> "none"]]
    /\ result = [i \in Slots |-> NoResult]
    /\ http = [i \in Slots |-> "none"]
    /\ log = [i \in Slots |-> <<>>]
    /\ ninv = 0
    /\ adv_in \in AdvisorInputs
    /\ adv_out = NoAdvice
    /\ NoCalls

pipeline_vars == <<variant, backend, session, connected, mcp_connected, closer,
                   running, pc, st, loc, result, http, log, ninv>>

CallShouldChart ==
    /\ adv_out = NoAdvice
    /\ adv_out' = [op |-> "should_chart", value |-> _should_generate_chart(adv_in)]
    /\ UNCHANGED <<adv_in, pipeline_vars, server_vars, caller_vars>>

CallFormat ==
    /\ adv_out = NoAdvice
    /\ adv_out' = [op |-> "format", value |-> _format_execution_result(adv_in)]
    /\ UNCHANGED <<adv_in, pipeline_vars, server_vars, caller_vars>>

CallPrepare ==
    /\ adv_out = NoAdvice
    /\ adv_out' = [op |-> "prepare", value |-> _prepare_chart_data(adv_in)]
    /\ UNCHANGED <<adv_in, pipeline_vars, server_vars, caller_vars>>

AdvisorNext ==
    \/ CallShouldChart
    \/ CallFormat
    \/ CallPrepare

SpecAdvisor == AdvisorInit /\ [][AdvisorNext]_vars

(***************************************************************************)
(* _extract_sql_query called directly on a reply of the model, and once    *)
(* more on what it returned.  A reply is a body, with or without           *)
(* whitespace around it, between an opening and a closing part that are    *)
(* empty, one fence or two, with whitespace around the whole.              *)
(***************************************************************************)
OuterSpace == {<<>>, <<" ">>, <<"\n", " ">>}
InnerSpace == {<<>>, <<"\n">>}
Openers == {<<>>, Fence, SqlFence, SqlFence \o Fence, Fence \o Fence}
Closers == {<<>>, Fence, Fence \o Fence}
Bodies ==
    {<<>>, <<"A">>, <<"A", " ", "B">>, <<"s", "q", "l", "A">>, <<Tick, "A", Tick>>}
ExtractInputs ==
    {pre \o open \o gap \o body \o gap \o close \o post :
        pre \in OuterSpace, open \in Openers, gap \in InnerSpace, body \in Bodies,
        close \in Closers, post \in OuterSpace}

ExtractInit ==
    /\ variant = "openai"
    /\ backend = "healthy"
    /\ session = "none"
    /\ connected = FALSE
    /\ mcp_connected = FALSE
    /\ closer = "idle"
    /\ running = 0
    /\ pc = [i \in Slots |-> "idle"]
    /\ st = [i \in Slots |-> InitialState("openai", "users", EmptyDict)]
    /\ loc = [i \in Slots |-> [sql |-> EmptySql, schema |-> "none"]]
    /\ result = [i \in Slots |-> NoResult]
    /\ http = [i \in Slots |-> "none"]
    /\ log = [i \in Slots |-> <<>>]
    /\ ninv = 0
    /\ adv_in \in ExtractInputs
    /\ adv_out = NoAdvice
    /\ NoCalls

CallExtract ==
    /\ adv_out = NoAdvice
    /\ adv_out' = [op |-> "extract", value |-> _extract_sql_query(adv_in)]
    /\ UNCHANGED <<adv_in, pipeline_vars, server_vars, caller_vars>>

CallExtractAgain ==
    /\ adv_out.op = "extract"
    /\ adv_out' = [op |-> "extract_twice", once |-> adv_out.value,
                   value |-> _extract_sql_query(adv_out.value)]
    /\ UNCHANGED <<adv_in, pipeline_vars, server_vars, caller_vars>>

ExtractNext ==
    \/ CallExtract
    \/ CallExtractAgain

SpecExtract == ExtractInit /\ [][ExtractNext]_vars

(***************************************************************************)
(* The specification of DatabaseMCPServer: call_tool is called with a tool *)
(* name and an argument mapping, one call after the other (call_tool       *)
(* awaits nothing, so a call runs to its end before the next one starts).  *)
(***************************************************************************)
ServerInit ==
    /\ variant = "openai"
    /\ backend = "healthy"
    /\ session = "none"
    /\ connected = FALSE
    /\ mcp_connected = FALSE
    /\ closer = "idle"
    /\ running = 0
    /\ pc = [i \in Slots |-> "idle"]
    /\ st = [i \in Slots |-> InitialState("openai", "users", EmptyDict)]
    /\ loc = [i \in Slots |-> [sql |-> EmptySql, schema |-> "none"]]
    /\ result = [i \in Slots |-> NoResult]
    /\ http = [i \in Slots |-> "none"]
    /\ log = [i \in Slots |-> <<>>]
    /\ ninv = 0
    /\ adv_in = NoneVal
    /\ adv_out = NoAdvice
    /\ NoCalls

\* await server.call_tool(name, arguments)
ServerCall(name, arguments) ==
    /\ LET r == ServerCallTool(db, name, arguments)
       IN  /\ db' = r.db
           /\ reply' = [name |-> name, arguments |-> arguments, before |-> db,
                        raised |-> r.raised, value |-> r.value]
    /\ UNCHANGED <<pipeline_vars, adv_vars, caller_vars>>

ServerNext == \E call \in Calls : ServerCall(call[1], call[2])

SpecServer == ServerInit /\ [][ServerNext]_vars

(***************************************************************************)
(* The schema describers.  A text is the sequence of its fragments; the    *)
(* lines are joined with "\n" as "\n".join does.                           *)
(***************************************************************************)
HeaderLine(table_name) == <<"table: ", table_name>>
ColumnLine(col_name, col_type) == <<"  - ", col_name, " (", col_type, ")">>
BlankLine == <<>>
CannotGetSchema == "cannot get the schema"
StrHasNoGet == "'str' object has no attribute 'get'"

RECURSIVE JoinLines(_)
JoinLines(lines) ==
    IF Len(lines) = 0 THEN <<>>
    ELSE IF Len(lines) = 1 THEN lines[1]
    ELSE lines[1] \o <<"\n">> \o JoinLines(Tail(lines))

\* The lines appended for one table: the header, one line per column, a blank line.
TableLines(table_name, columns) ==
    <<HeaderLine(table_name)>>
        \o [j \in 1..Len(columns) |->
               ColumnLine(Get(columns[j], "name", ""), Get(columns[j], "type", ""))]
        \o <<BlankLine>>

RECURSIVE SchemaLines(_)
SchemaLines(tables) ==
    IF Len(tables) = 0 THEN <<>>
    ELSE TableLines(Get(tables[1], "name", ""), Get(tables[1], "columns", <<>>))
             \o SchemaLines(Tail(tables))

\* SQLAgentGemini._get_database_schema, from schema = await get_schema() on:
\* "for table in tables" yields the items of a list and the keys of a dict, and
\* table.get on a key, a str, raises AttributeError.
GeminiDescribeSchema(schema) ==
    LET tables == Get(schema, "tables", PyList(<<>>))
    IN  IF IsDict(tables)
        THEN IF Keys(tables) = {} THEN JoinLines(<<>>)
             ELSE <<CannotGetSchema, StrHasNoGet>>
        ELSE JoinLines(SchemaLines(tables.items))

\* SQLAgent._get_database_schema: the tables of sqlite_master and the columns
\* of PRAGMA table_info, read from the file
LocalDescribeSchema(d) ==
    JoinLines(SchemaLines([j \in 1..Len(TableOrder) |->
                              [name |-> TableOrder[j],
                               columns |-> TableColumns[TableOrder[j]]]]))

\* A gateway that answers /api/schema with the list of the tables instead of
\* the mapping DatabaseMCPServer returns.
ListedSchema(d) ==
    [database |-> DbPath,
     tables |-> PyList([j \in 1..Len(TableOrder) |->
                           [name |-> TableOrder[j],
                            columns |-> TableColumns[TableOrder[j]],
                            row_count |-> Cardinality(d.tables[TableOrder[j]])]]),
     total_tables |-> Len(TableOrder)]
SchemaShapes == {"mapping", "list", "error"}
SchemaAnswer(d, shape) ==
    CASE shape = "mapping" -> ServerSchema(d).value
      [] shape = "list" -> ListedSchema(d)
      [] OTHER -> [error |-> <<UnknownTool, "get_database_schema">>]

\* A file after some statements were executed on it.
StoredDbs ==
    {[tables |-> [users |-> u, products |-> p, orders |-> {1}], open |-> 0] :
        u \in SUBSET RowIds, p \in SUBSET {1, 2}}

SchemaInit ==
    /\ variant \in {"openai", "gemini"}
    /\ backend = "healthy"
    /\ session = "none"
    /\ connected = FALSE
    /\ mcp_connected = FALSE
    /\ closer = "idle"
    /\ running = 0
    /\ pc = [i \in Slots |-> "idle"]
    /\ st = [i \in Slots |-> InitialState(variant, "users", EmptyDict)]
    /\ loc = [i \in Slots |-> [sql |-> EmptySql, schema |-> "none"]]
    /\ result = [i \in Slots |-> NoResult]
    /\ http = [i \in Slots |-> "none"]
    /\ log = [i \in Slots |-> <<>>]
    /\ ninv = 0
    /\ adv_in = NoneVal
    /\ adv_out = NoAdvice
    /\ db \in StoredDbs
    /\ reply = NoReply
    /\ scope = "outside"
    /\ direct_call = NoOutcome

\* schema = await self.mcp_client.get_schema()
GetSchemaAnswer(shape) ==
    /\ variant = "gemini"
    /\ reply' = [name |-> "get_database_schema", arguments |-> EmptyDict, before |-> db,
                 raised |-> FALSE, value |-> SchemaAnswer(db, shape)]
    /\ UNCHANGED <<pipeline_vars, adv_vars, db, caller_vars>>

\* SQLAgentGemini._get_database_schema on the schema received
DescribeReceived ==
    /\ variant = "gemini"
    /\ reply.name = "get_database_schema"
    /\ adv_in' = reply.value
    /\ adv_out' = [op |-> "describe", value |-> GeminiDescribeSchema(reply.value)]
    /\ UNCHANGED <<pipeline_vars, server_vars, caller_vars>>

\* SQLAgent._get_database_schema
DescribeLocal ==
    /\ variant = "openai"
    /\ adv_in' = NoneVal
    /\ adv_out' = [op |-> "describe_local", value |-> LocalDescribeSchema(db)]
    /\ UNCHANGED <<pipeline_vars, server_vars, caller_vars>>

SchemaNext ==
    \/ \E shape \in SchemaShapes : GetSchemaAnswer(shape)
    \/ DescribeReceived
    \/ DescribeLocal

SpecSchema == SchemaInit /\ [][SchemaNext]_vars

(***************************************************************************)
(* DatabaseMCPClient and DatabaseMCPClientSync used directly, by a caller  *)
(* that awaits each call before it makes the next one.  A client is its    *)
(* session and its connected flag; a request is its method, its endpoint   *)
(* and its body, and the backend's answer to it is a function of the       *)
(* request.                                                                *)
(***************************************************************************)
Client(s, c) == [session |-> s, connected |-> c]
\* DatabaseMCPClient.__init__
NewClient == Client("none", FALSE)

Request(method, endpoint, data) == [method |-> method, endpoint |-> endpoint, data |-> data]
HealthRequest == Request("GET", <<"/health">>, NoneVal)
\* The JSON the backend answers with.
AnswerTo(b, request) ==
    IF request = HealthRequest THEN [status |-> b]
    ELSE [answer_to |-> request]

Outcome(c, raised, value, message, sent) ==
    [client |-> c, raised |-> raised, value |-> value, message |-> message, sent |-> sent]

\* DatabaseMCPClient._make_request: a session is created when none is held; a
\* request on a closed session and a request to an unreachable backend raise.
MakeRequest(c, b, request) ==
    LET c1 == IF c.session = "none" THEN [c EXCEPT !.session = "open"] ELSE c
    IN  IF c1.session = "closed"
        THEN Outcome(c1, TRUE, NoneVal, RequestFailed(<<"session is closed">>), FALSE)
        ELSE IF b = "down"
        THEN Outcome(c1, TRUE, NoneVal, RequestFailed(<<"cannot connect">>), TRUE)
        ELSE Outcome(c1, FALSE, AnswerTo(b, request), <<>>, TRUE)

\* DatabaseMCPClient.__aenter__ and __aexit__
ClientEnter(c) == [c EXCEPT !.session = "open"]
ClientExit(c) == IF c.session # "none" THEN [c EXCEPT !.session = "closed"] ELSE c

\* DatabaseMCPClient.connect
ClientConnect(c, b) ==
    LET health == MakeRequest(c, b, HealthRequest)
    IN  IF ~health.raised /\ Get(health.value, "status", "") = "healthy"
        THEN [health.client EXCEPT !.connected = TRUE]
        ELSE [health.client EXCEPT !.connected = FALSE]

\* DatabaseMCPClient.disconnect
ClientDisconnect(c) == Client("none", FALSE)

\* The request call_tool makes for a tool
ToolRequest(tool_name, arguments) ==
    CASE tool_name = "get_database_schema" -> Request("GET", <<"/api/schema">>, NoneVal)
      [] tool_name = "execute_query" ->
            Request("POST", <<"/api/query">>, [sql |-> Get(arguments, "sql", <<>>)])
      [] tool_name = "get_table_info" ->
            Request("GET", <<"/api/table/", Get(arguments, "table_name", "")>>, NoneVal)
      [] tool_name = "get_sample_data" ->
            Request("GET", <<"/api/table/", Get(arguments, "table_name", ""),
                             "/sample?limit=",
                             ToString(Get(arguments, "limit", DefaultLimit))>>, NoneVal)

\* DatabaseMCPClient.call_tool
ClientCallTool(c, b, tool_name, arguments) ==
    IF ~c.connected THEN Outcome(c, TRUE, NoneVal, NotConnectedError, FALSE)
    ELSE IF tool_name \notin ToolNames
    THEN Outcome(c, TRUE, NoneVal, ToolCallFailed(<<UnknownTool, tool_name>>), FALSE)
    ELSE LET r == MakeRequest(c, b, ToolRequest(tool_name, arguments))
         IN  IF r.raised THEN [r EXCEPT !.message = ToolCallFailed(r.message)] ELSE r

\* DatabaseMCPClient.get_schema, execute_query, get_table_info and
\* get_sample_data, called with the arguments of the mapping
ClientMethod(c, b, tool_name, arguments) ==
    CASE tool_name = "get_database_schema" ->
            MakeRequest(c, b, Request("GET", <<"/api/schema">>, NoneVal))
      [] tool_name = "execute_query" ->
            MakeRequest(c, b, Request("POST", <<"/api/query">>, [sql |-> arguments.sql]))
      [] tool_name = "get_table_info" ->
            MakeRequest(c, b, Request("GET", <<"/api/table/", arguments.table_name>>, NoneVal))
      [] tool_name = "get_sample_data" ->
            MakeRequest(c, b, Request("GET", <<"/api/table/", arguments.table_name,
                                               "/sample?limit=",
                                               ToString(Get(arguments, "limit", DefaultLimit))>>,
                                      NoneVal))

\* DatabaseMCPClientSync: every method runs the method of a new client
SyncCallTool(b, tool_name, arguments) == ClientCallTool(NewClient, b, tool_name, arguments)
SyncMethod(b, tool_name, arguments) == ClientMethod(NewClient, b, tool_name, arguments)

\* The calls made: each tool with arguments its direct method accepts.
ToolCallInputs ==
    {<<"get_database_schema", EmptyDict>>,
     <<"execute_query", [sql |-> <<"A">>]>>,
     <<"get_table_info", [table_name |-> "users"]>>,
     <<"get_sample_data", [table_name |-> "users"]>>,
     <<"get_sample_data", [table_name |-> "users", limit |-> 1]>>}

ClientInit ==
    /\ variant = "openai"
    /\ backend \in BackendStates
    /\ session = "none"
    /\ connected = FALSE
    /\ mcp_connected = FALSE
    /\ closer = "idle"
    /\ running = 0
    /\ pc = [i \in Slots |-> "idle"]
    /\ st = [i \in Slots |-> InitialState("openai", "users", EmptyDict)]
    /\ loc = [i \in Slots |-> [sql |-> EmptySql, schema |-> "none"]]
    /\ result = [i \in Slots |-> NoResult]
    /\ http = [i \in Slots |-> "none"]
    /\ log = [i \in Slots |-> <<>>]
    /\ ninv = 0
    /\ adv_in = NoneVal
    /\ adv_out = NoAdvice
    /\ NoCalls

agent_vars == <<variant, mcp_connected, closer, running, pc, st, loc, result, http,
                log, ninv>>
Held == Client(session, connected)
Hold(c) == session' = c.session /\ connected' = c.connected
Called(op, name, arguments, o) ==
    [op |-> op, name |-> name, arguments |-> arguments, on |-> backend,
     raised |-> o.raised, value |-> o.value, message |-> o.message, sent |-> o.sent]
NoArguments == EmptyDict

\* async with DatabaseMCPClient() as client:
Enter ==
    /\ scope = "outside"
    /\ Hold(ClientEnter(Held))
    /\ scope' = "inside"
    /\ direct_call' = NoOutcome
    /\ UNCHANGED <<agent_vars, backend, adv_vars, server_vars>>

\* the end of the async with block
Exit ==
    /\ scope = "inside"
    /\ Hold(ClientExit(Held))
    /\ scope' = "exited"
    /\ direct_call' = NoOutcome
    /\ UNCHANGED <<agent_vars, backend, adv_vars, server_vars>>

\* await client.connect()
Connect ==
    /\ Hold(ClientConnect(Held, backend))
    /\ direct_call' = [op |-> "connect"]
    /\ UNCHANGED <<agent_vars, backend, adv_vars, server_vars, scope>>

\* await client.disconnect()
Disconnect ==
    /\ Hold(ClientDisconnect(Held))
    /\ scope' = "outside"
    /\ direct_call' = [op |-> "disconnect"]
    /\ UNCHANGED <<agent_vars, backend, adv_vars, server_vars>>

\* await client.call_tool(tool_name, arguments)
ClientCall(tool_name, arguments) ==
    /\ LET o == ClientCallTool(Held, backend, tool_name, arguments)
       IN  /\ Hold(o.client)
           /\ direct_call' = Called("call_tool", tool_name, arguments, o)
    /\ UNCHANGED <<agent_vars, backend, adv_vars, server_vars, scope>>

\* await client.get_schema() and the other direct methods
ClientDirect(tool_name, arguments) ==
    /\ LET o == ClientMethod(Held, backend, tool_name, arguments)
       IN  /\ Hold(o.client)
           /\ direct_call' = Called("method", tool_name, arguments, o)
    /\ UNCHANGED <<agent_vars, backend, adv_vars, server_vars, scope>>

\* DatabaseMCPClientSync(...).call_tool(tool_name, arguments)
SyncCall(tool_name, arguments) ==
    /\ direct_call' = Called("sync_call_tool", tool_name, arguments,
                             SyncCallTool(backend, tool_name, arguments))
    /\ UNCHANGED <<agent_vars, backend, session, connected, adv_vars, server_vars, scope>>

\* DatabaseMCPClientSync(...).get_schema() and the other direct methods
SyncDirect(tool_name, arguments) ==
    /\ direct_call' = Called("sync_method", tool_name, arguments,
                             SyncMethod(backend, tool_name, arguments))
    /\ UNCHANGED <<agent_vars, backend, session, connected, adv_vars, server_vars, scope>>

ClientNext ==
    \/ Enter
    \/ Exit
    \/ Connect
    \/ Disconnect
    \/ \E call \in ToolCallInputs \cup {<<"drop_table", NoArguments>>} :
           ClientCall(call[1], call[2])
    \/ \E call \in ToolCallInputs : ClientDirect(call[1], call[2])
    \/ \E call \in ToolCallInputs : SyncCall(call[1], call[2])
    \/ \E call \in ToolCallInputs : SyncDirect(call[1], call[2])
    \/ \E b \in BackendStates : BackendChange(b)

SpecClient == ClientInit /\ [][ClientNext]_vars

(***************************************************************************)
(* The specification of one agent serving two requests at once: two        *)
(* invocations of execute() on the same agent, interleaved at their awaits *)
(* by the event loop.                                                      *)
(***************************************************************************)
ConcInit ==
    /\ Init
    /\ variant \in {"openai", "gemini"}
    /\ backend = "healthy"

ConcStep(i) ==
    \/ Execute(i, "users", EmptyDict)
    \/ EnsureConnected(i)
    \/ HealthResponse(i)
    \/ GetSchemaSend(i)
    \/ GetSchemaResponse(i)
    \/ ReasonLlm(i)
    \/ ActionLlm(i)
    \/ CallTool(i)
    \/ QueryResponse(i)
    \/ ObserveLlm(i)
    \/ Visualize(i)
    \/ HttpRespond(i)

ConcNext ==
    \/ ConcStep(1)
    \/ ConcStep(2)

SpecConc == ConcInit /\ [][ConcNext]_vars

(***************************************************************************)
(* The claims.                                                             *)
(***************************************************************************)
IsPrefix(a, b) == Len(a) <= Len(b) /\ a = SubSeq(b, 1, Len(a))
PipelineOrder(v) ==
    IF v = "gemini"
    THEN <<"reason", "action", "observe", "visualize">>
    ELSE <<"reason", "action", "observe">>
IsFailedLlm(e) == e.ev = "llm" /\ ~e.ok
LlmCallsOf(l, stage) == SelectSeq(l, LAMBDA e : e.ev = "llm" /\ e.stage = stage)
HasEvent(l, Test(_)) == \E k \in 1..Len(l) : Test(l[k])
StageNames == {"reason", "action", "observe", "visualize"}

\* C1: in every invocation of execute() the stages entered so far are a
\* prefix of reason, action, observe (, visualize for the Gemini agent), the
\* whole sequence once execute() has returned; no stage calls the model
\* twice, execute_query is called at most once, and nothing follows a failed
\* model call or a failed tool call but the stages after it.
C1_StagesInOrderOnce ==
    \A i \in Slots :
        /\ IsPrefix(Stages(log[i]), PipelineOrder(variant))
        /\ pc[i] = "returned" => Stages(log[i]) = PipelineOrder(variant)
        /\ \A stage \in StageNames : Len(LlmCallsOf(log[i], stage)) <= 1
        /\ Len(ToolCalls(log[i])) <= 1
        /\ Len(SelectSeq(log[i], IsRaised)) + Len(SelectSeq(log[i], IsAnswer)) <= 1
        /\ \A k \in 1..Len(log[i]) : IsFailedLlm(log[i][k]) => k = Len(log[i])

C1_Witness ==
    /\ variant = "gemini"
    /\ pc[1] = "returned"
    /\ Stages(log[1]) = <<"reason", "action", "observe", "visualize">>
    /\ HasEvent(log[1], IsRaised)

\* C2: when the connect or the execute_query call of the action stage
\* raised, execution_result is the error value with the message and the
\* attempted statement, the pipeline goes on to observe, and execute() raises
\* only if a later model call fails.
C2_GatewayFailureIsCaught ==
    \A i \in Slots :
        \A k \in 1..Len(log[i]) :
            IsRaised(log[i][k]) =>
                /\ st[i].execution_result =
                       [type |-> "error", error |-> log[i][k].message,
                        sql |-> log[i][k].sql]
                /\ st[i].sql_query = log[i][k].sql
                /\ pc[i] \in {"observe", "visualize", "returned", "raised", "idle"}
                /\ pc[i] = "raised" => IsFailedLlm(log[i][Len(log[i])])
                /\ (pc[i] = "idle" /\ ~HasEvent(log[i], IsFailedLlm)) =>
                       /\ http[i] = "200"
                       /\ result[i].data = st[i].execution_result

C2_Witness ==
    /\ pc[1] = "returned"
    /\ HasEvent(log[1], IsRaised)
    /\ result[1].data = ErrorResult(NotConnectedError, st[1].sql_query)

\* C3: whenever the backend rejected the statement, by raising or by
\* answering with an error object, the data execute() returns is the error
\* value: its type is 'error' and it carries the attempted statement.
C3_RejectionIsErrorValue ==
    \A i \in Slots :
        (/\ "data" \in DOMAIN result[i]
         /\ \E k \in 1..Len(log[i]) :
               \/ IsRaised(log[i][k])
               \/ IsAnswer(log[i][k]) /\ Has(log[i][k].value, "error"))
        => /\ Get(result[i].data, "type", "") = "error"
           /\ Get(result[i].data, "sql", <<>>) = st[i].sql_query

\* C4: when a model call raised, it is the last thing the invocation did:
\* execute() raised, no result was returned, and the HTTP caller answers with
\* the failure status.
C4_ModelFailureIsHard ==
    \A i \in Slots :
        HasEvent(log[i], IsFailedLlm) =>
            /\ IsFailedLlm(log[i][Len(log[i])])
            /\ Stages(log[i])[Len(Stages(log[i]))] = log[i][Len(log[i])].stage
            /\ pc[i] \in {"raised", "idle"}
            /\ result[i] = NoResult
            /\ http[i] = IF pc[i] = "idle" THEN "500" ELSE "none"

C4_Witness ==
    /\ pc[1] = "idle"
    /\ http[1] = "500"
    /\ HasEvent(log[1], IsFailedLlm)
    /\ log[1][Len(log[1])].stage = "observe"

OwnFields(stage) ==
    CASE stage = "reason" -> {"reasoning"}
      [] stage = "action" -> {"sql_query", "execution_result"}
      [] stage = "observe" -> {"response"}
      [] stage = "visualize" -> {"chart_description"}

\* C5: a step of a stage changes no field of the AgentState but the stage's
\* own, and adds or removes no field: query and context are never changed.
C5_StagesKeepOtherFields ==
    [][\A i \in Slots :
          (pc[i] # "idle" /\ st'[i] # st[i]) =>
              /\ DOMAIN st'[i] = DOMAIN st[i]
              /\ \A f \in DOMAIN st[i] \ OwnFields(StageOf(pc[i])) :
                    st'[i][f] = st[i][f]]_vars

C5_Witness ==
    /\ variant = "gemini"
    /\ pc[1] = "returned"
    /\ st[1].context = [user |-> "u1"]
    /\ st[1].query = "other"
    /\ st[1].reasoning # ""
    /\ st[1].sql_query # EmptySql
    /\ st[1].response # ""
    /\ st[1].chart_description # ""

C7_VisualizeCallsModelIffChartable ==
    \A i \in Slots :
        (variant = "gemini" /\ \E k \in 1..Len(log[i]) : log[i][k] = StageEvent("visualize"))
        => LET er == st[i].execution_result
               calls == LlmCallsOf(log[i], "visualize")
           IN  IF _should_generate_chart(er)
               THEN /\ Len(calls) = 1
                    /\ Len(LlmCalls(log[i])) = 4
                    /\ calls[1].input = _prepare_chart_data(er)
                    /\ calls[1].ok => st[i].chart_description = calls[1].output
               ELSE /\ Len(calls) = 0
                    /\ Len(LlmCalls(log[i])) = 3
                    /\ st[i].chart_description = "no chart needed"

C7_Witness ==
    /\ variant = "gemini"
    /\ pc[1] = "returned"
    /\ Len(LlmCalls(log[1])) = 4
    /\ result[1].chart_description = "t2"

IsSuccess(er) ==
    /\ Truthy(er)
    /\ IsDict(er)
    /\ Get(er, "type", "") # "error"
    /\ Get(er, "success", FALSE)
HasRows(er) ==
    /\ IsDict(Get(er, "data", EmptyDict))
    /\ Has(Get(er, "data", EmptyDict), "rows")
    /\ Len(er.data.rows) > 0
IsNumber(cell) == cell.ty \in {"int", "float"}
FirstRowHasNumberOutsideId(rows) ==
    \E j \in 1..Len(rows[1]) : IsNumber(rows[1][j].c) /\ rows[1][j].k # "id"

\* C8: should_chart answers true only for a non-error success with
\* row_count >= 2 whose first row holds a number under a key other than id;
\* it answers false for an absent or empty result, an error result,
\* row_count = 1, and a first row whose only numbers are under id.
C8_ShouldChartOnlyIf ==
    adv_out.op = "should_chart" =>
        /\ adv_out.value =>
              /\ IsSuccess(adv_in)
              /\ Get(adv_in, "row_count", 0) >= 2
              /\ HasRows(adv_in)
              /\ FirstRowHasNumberOutsideId(adv_in.data.rows)
        /\ adv_in \in {NoneVal, EmptyDict, PyList(<<>>)} => ~adv_out.value
        /\ (IsDict(adv_in) /\ Get(adv_in, "type", "") = "error") => ~adv_out.value
        /\ (IsDict(adv_in) /\ Get(adv_in, "row_count", 0) = 1) => ~adv_out.value
        /\ (IsSuccess(adv_in) /\ HasRows(adv_in)
            /\ ~FirstRowHasNumberOutsideId(adv_in.data.rows)) => ~adv_out.value

C8_Witness ==
    /\ adv_out.op = "should_chart"
    /\ adv_out.value
    /\ adv_in.row_count = 2
    /\ RowKeys(adv_in.data.rows[1]) = <<"id", "age">>

\* C9: should_chart answers true for every result of the server's
\* execute_query for a read statement that has row_count >= 2 and a number
\* under a key other than id in its first row.
C9_SelectResultIsChartable ==
    (/\ adv_out.op = "should_chart"
     /\ IsDict(adv_in)
     /\ Get(adv_in, "type", "") = "select"
     /\ adv_in.row_count >= 2
     /\ FirstRowHasNumberOutsideId(adv_in.rows))
    => adv_out.value

IsSubSeq(p, t) == \E a \in 0..(Len(t) - Len(p)) : SubSeq(t, a + 1, a + Len(p)) = p
\* The fragment of a formatted text shows the statement.
ShowsSql(f, sql) ==
    \/ "msg" \in DOMAIN f /\ IsSubSeq(sql, f.msg)
    \/ "json" \in DOMAIN f /\ IsDict(f.json) /\ Get(f.json, "sql", <<>>) = sql

\* C11: for an error value {type: 'error', error, sql} the formatter returns
\* a text that begins with the execution-error prefix and holds both the
\* error message and the attempted statement.
C11_ErrorTextHasMessageAndSql ==
    (/\ adv_out.op = "format"
     /\ IsDict(adv_in)
     /\ Get(adv_in, "type", "") = "error"
     /\ Has(adv_in, "error")
     /\ Has(adv_in, "sql"))
    => LET text == adv_out.value.text
       IN  /\ text[1] = [lit |-> "execution error: "]
           /\ \E k \in 1..Len(text) : text[k] = [msg |-> adv_in.error]
           /\ \E k \in 1..Len(text) : ShowsSql(text[k], adv_in.sql)

\* C12: the result of the server's execute_query for a data-modifying
\* statement, {type: 'dml', affected_rows, message}, is formatted by the last
\* branch, the dump of the whole result, which shows affected_rows; it does
\* not get the zero-rows message.
C12_DmlResultIsDumped ==
    (/\ adv_out.op = "format"
     /\ IsDict(adv_in)
     /\ Keys(adv_in) = {"type", "affected_rows", "message"}
     /\ adv_in.type = "dml")
    => /\ adv_out.value.branch = "generic_dump"
       /\ adv_out.value.text = <<[json |-> adv_in]>>
       /\ "affected_rows" \in DOMAIN adv_out.value.text[1].json
       /\ adv_out.value.text #
              <<[lit |-> "query succeeded, but no matching rows were found"]>>

C12_Witness ==
    /\ adv_out.op = "format"
    /\ adv_out.value.branch = "generic_dump"
    /\ Has(adv_in, "affected_rows")
    /\ adv_in.affected_rows = 1

KeysOfType(row, types) ==
    RowKeys(SelectSeq(row, LAMBDA it : it.c.ty \in types /\ it.k # "id"))
After(text, label) ==
    text[(CHOOSE k \in 1..Len(text) : text[k] = [lit |-> label]) + 1]
LinesOf(text) == SelectSeq(text, LAMBDA f : "line" \in DOMAIN f)
ShownList(keys) == IF keys = <<>> THEN [lit |-> "none"] ELSE [join |-> keys]

\* C13: for a result with n >= 1 rows prepare() reports n rows and the number
\* of keys of the first row, lists the first row's number-valued keys and its
\* string-valued keys without id (two disjoint lists), renders the first
\* min(5, n) rows in order, and ends with the note of n - 5 more rows exactly
\* when n > 5.
C13_PrepareSummary ==
    (/\ adv_out.op = "prepare"
     /\ IsDict(adv_in)
     /\ HasRows(adv_in))
    => LET rows == adv_in.data.rows
           n == Len(rows)
           text == adv_out.value
           nums == KeysOfType(rows[1], {"int", "float"})
           strs == KeysOfType(rows[1], {"str"})
       IN  /\ After(text, "total rows") = [num |-> n]
           /\ After(text, "columns") = [num |-> Len(rows[1])]
           /\ After(text, "numeric fields") = ShownList(nums)
           /\ After(text, "text fields") = ShownList(strs)
           /\ \A a \in 1..Len(nums), b \in 1..Len(strs) : nums[a] # strs[b]
           /\ \A a \in 1..Len(nums) : nums[a] # "id"
           /\ \A b \in 1..Len(strs) : strs[b] # "id"
           /\ LinesOf(text) =
                  [j \in 1..(IF n < 5 THEN n ELSE 5) |-> [line |-> j, row |-> rows[j]]]
           /\ (n > 5) <=> (\E k \in 1..Len(text) : text[k] = [lit |-> "... and "])
           /\ (n > 5) => After(text, "... and ") = [num |-> n - 5]

C13_Witness ==
    /\ adv_out.op = "prepare"
    /\ HasRows(adv_in)
    /\ Len(adv_in.data.rows) = 6
    /\ RowKeys(adv_in.data.rows[1]) = <<"id", "name">>
    /\ After(adv_out.value, "text fields") = [join |-> <<"name">>]
    /\ After(adv_out.value, "... and ") = [num |-> 1]

AllSpace(t) == \A k \in 1..Len(t) : t[k] \in {" ", "\n"}
\* r is t without its leading and trailing whitespace
IsTrimOf(r, t) ==
    /\ r # <<>> => (r[1] \notin {" ", "\n"} /\ r[Len(r)] \notin {" ", "\n"})
    /\ \E a \in 0..(Len(t) - Len(r)) :
          /\ SubSeq(t, a + 1, a + Len(r)) = r
          /\ AllSpace(SubSeq(t, 1, a))
          /\ AllSpace(SubSeq(t, a + Len(r) + 1, Len(t)))
Trimmed(t) ==
    CHOOSE r \in {SubSeq(t, a, b) : a \in 1..(Len(t) + 1), b \in 0..Len(t)} : IsTrimOf(r, t)
ThreeTicks == <<"^", "^", "^">>
HasFence(t) == IsSubSeq(ThreeTicks, t)
HasTick(t) == \E k \in 1..Len(t) : t[k] = "^"
BeginsWithFence(t) == Len(t) >= 3 /\ SubSeq(t, 1, 3) = ThreeTicks
BeginsWithSqlFence(t) == Len(t) >= 6 /\ SubSeq(t, 1, 6) = ThreeTicks \o <<"s", "q", "l">>
EndsWithFence(t) == Len(t) >= 3 /\ SubSeq(t, Len(t) - 2, Len(t)) = ThreeTicks
\* What stands between the opening fence, sql-tagged if it can be read so,
\* and the closing fence of a fenced block.
InnerOf(block) ==
    IF BeginsWithSqlFence(block) /\ Len(block) >= 9
    THEN SubSeq(block, 7, Len(block) - 3)
    ELSE SubSeq(block, 4, Len(block) - 3)
IsFencedStatement(t) ==
    LET block == Trimmed(t)
    IN  /\ Len(block) >= 6
        /\ BeginsWithFence(block)
        /\ EndsWithFence(block)
        /\ ~HasTick(InnerOf(block))

\* C14: for a statement between an opening fence, sql-tagged or plain, and a
\* closing fence, with any whitespace around the block and inside it,
\* extract returns the statement without its leading and trailing
\* whitespace, and no fence is left in what it returns.
C14_FencedStatementIsUnwrapped ==
    (/\ adv_out.op = "extract"
     /\ IsFencedStatement(adv_in))
    => /\ adv_out.value = Trimmed(InnerOf(Trimmed(adv_in)))
       /\ ~HasFence(adv_out.value)

C14_Witness ==
    /\ adv_out.op = "extract"
    /\ adv_in = <<" ">> \o ThreeTicks \o <<"s", "q", "l", "\n", "A", " ", "B", "\n">>
                \o ThreeTicks \o <<"\n", " ">>
    /\ adv_out.value = <<"A", " ", "B">>

\* C15: for a text without a fence extract returns the text without its
\* leading and trailing whitespace, and extract of that is the same text.
C15_NoFenceIsTrimmedOnce ==
    (/\ adv_out.op \in {"extract", "extract_twice"}
     /\ ~HasFence(adv_in))
    => /\ adv_out.op = "extract" => adv_out.value = Trimmed(adv_in)
       /\ adv_out.op = "extract_twice" =>
              /\ adv_out.once = Trimmed(adv_in)
              /\ adv_out.value = adv_out.once

C15_Witness ==
    /\ adv_out.op = "extract_twice"
    /\ adv_in = <<"\n", " ", "A", " ", "B", " ">>
    /\ adv_out.value = <<"A", " ", "B">>

\* The block without its opening fence and without one closing fence.
OnePairRemoved(block) ==
    LET rest == SubSeq(block, (IF BeginsWithSqlFence(block) THEN 7 ELSE 4), Len(block))
    IN  IF EndsWithFence(rest) THEN SubSeq(rest, 1, Len(rest) - 3) ELSE rest

\* C16: extract removes fences only from a text that, trimmed, begins with a
\* fence: any other text is returned trimmed and otherwise unchanged, a
\* closing fence included; from a text that begins with a fence one pair of
\* fences is removed, never two.
C16_StripsOnlyBehindOpeningFence ==
    adv_out.op = "extract" =>
        LET block == Trimmed(adv_in)
        IN  IF BeginsWithFence(block)
            THEN adv_out.value = Trimmed(OnePairRemoved(block))
            ELSE adv_out.value = block

\* What a step of invocation i adds to its log.
Appended(i) == SubSeq(log'[i], Len(log[i]) + 1, Len(log'[i]))
Moves(i) == pc'[i] # pc[i]

\* C17: call_tool on a client whose connected flag is false raises the
\* not-connected error and sends nothing; what call_tool raises once the flag
\* let it through carries the tool-call-failed prefix, so the two differ.
C17_CallToolRefusesWhenNotConnected ==
    [][\A i \in Slots :
          /\ (pc[i] = "action_call" /\ Moves(i) /\ ~connected) =>
                /\ Appended(i) =
                       <<[ev |-> "execute_query", sql |-> loc[i].sql, sent |-> FALSE],
                         [ev |-> "gateway_raised",
                          message |-> <<"MCP Server not connected">>, sql |-> loc[i].sql]>>
                /\ session' = session
                /\ pc'[i] # "action_query"
          /\ ((pc[i] = "action_query" \/ (pc[i] = "action_call" /\ connected)) /\ Moves(i)) =>
                \A k \in 1..Len(Appended(i)) :
                    Appended(i)[k].ev = "gateway_raised" =>
                        /\ Appended(i)[k].message[1] = "tool call failed"
                        /\ Appended(i)[k].message # <<"MCP Server not connected">>]_vars

C17_Witness ==
    /\ mcp_connected
    /\ ~connected
    /\ pc[1] = "observe"
    /\ \E k \in 1..(Len(log[1]) - 1) :
          /\ IsTool(log[1][k])
          /\ ~log[1][k].sent
          /\ log[1][k + 1] =
                 [ev |-> "gateway_raised", message |-> <<"MCP Server not connected">>,
                  sql |-> log[1][k].sql]

\* C18: a request of a gateway operation, call_tool or a direct method, is
\* sent only while the client's connected flag is true.
C18_RequestsOnlyWhileConnected ==
    [][\A i \in Slots :
          (Moves(i) /\ pc'[i] \in {"reason_schema", "action_schema", "action_query"})
          => connected]_vars

IsHealthStep(i) ==
    pc[i] \in {"reason_health", "action_s_health", "action_health"} /\ Moves(i)
IsDisconnectEnd ==
    \/ closer = "closing" /\ closer' = "idle"
    \/ closer = "idle" /\ closer' = "idle" /\ mcp_connected /\ ~mcp_connected'

\* C19: connected becomes true only in the step of a connect() whose health
\* check is answered with the status healthy; a connect() whose health check
\* raises or is answered with another status ends with connected false, and
\* so does disconnect().
C19_ConnectedOnlyAfterHealthy ==
    [][/\ (connected' /\ ~connected) =>
              \E i \in Slots : IsHealthStep(i) /\ backend = "healthy"
       /\ \A i \in Slots : (IsHealthStep(i) /\ backend # "healthy") => ~connected'
       /\ IsDisconnectEnd => ~connected']_vars

C19_Witness ==
    /\ connected
    /\ session = "open"
    /\ backend = "unhealthy"
    /\ pc[1] = "action_query"

NoneInFlight == \A i \in Slots : pc[i] \in {"idle", "returned", "raised"}
Released == ~mcp_connected /\ ~connected /\ session = "none"
HasConnect(l) == \E k \in 1..Len(l) : l[k].ev = "connect"

\* C20: when close() ends with no invocation in flight, mcp_connected and
\* connected are false and there is no session, so that call_tool refuses,
\* also when close() found mcp_connected false and did nothing;
\* the released gateway stays released until an invocation calls connect();
\* and an invocation that finds mcp_connected false reaches its execute_query
\* call only after it has called connect().
C20_CloseReleasesGateway ==
    [][/\ (IsDisconnectEnd /\ NoneInFlight) =>
              /\ ~mcp_connected'
              /\ ~connected'
              /\ session' = "none"
       /\ (NoneInFlight' /\ closer' = "idle" /\ ~mcp_connected') => Released'
       /\ (Released /\ closer = "idle" /\ ~(Released')) =>
              \E i \in Slots :
                  /\ Len(Appended(i)) > 0
                  /\ Appended(i)[Len(Appended(i))].ev = "connect"
       /\ \A i \in Slots :
              /\ (\E k \in 1..Len(Appended(i)) : Appended(i)[k].ev = "execute_query")
                    => pc[i] = "action_call"
              /\ (pc'[i] = "action_call" /\ Moves(i) /\ ~mcp_connected)
                    => HasConnect(log'[i]) /\ mcp_connected']_vars

C20_Witness ==
    /\ Released
    /\ closer = "idle"
    /\ ninv = 1
    /\ pc[1] = "idle"
    /\ http[1] = "200"
    /\ \E k \in 1..Len(log[1]) : IsTool(log[1][k]) /\ log[1][k].sent

\* C25: the agent's mcp_connected flag is true only if the client's
\* connected flag is true.
C25_AgentFlagImpliesClientFlag == mcp_connected => connected

\* C26: an invocation that finds the gateway not connected after a failed
\* connect(), with no close() since and the backend healthy, calls connect()
\* again, and its execute_query call is sent to the backend.
C26_ReconnectsAfterFailedConnect ==
    [][\A i \in Slots :
          (/\ Moves(i)
           /\ mcp_connected
           /\ ~connected
           /\ closer = "idle"
           /\ backend = "healthy"
           /\ ~HasConnect(log[i]))
          => /\ pc[i] = "action_ensure" =>
                   (Len(Appended(i)) > 0 /\ Appended(i)[1].ev = "connect")
             /\ pc[i] = "action_call" => pc'[i] = "action_query"]_vars

IsErrorValue(v) ==
    /\ IsDict(v)
    /\ Keys(v) = {"type", "error", "sql"}
    /\ v.type = "error"

\* C27: with close() running at any point of an invocation, the invocation
\* raises only when a model call failed; when none failed it runs all its
\* stages and returns a result whose data is the answer of the backend or the
\* error value with the attempted statement.
C27_CloseNeverMakesExecuteRaise ==
    \A i \in Slots :
        /\ pc[i] = "raised" => IsFailedLlm(log[i][Len(log[i])])
        /\ (variant # "mock" /\ pc[i] = "returned") =>
              /\ ~HasEvent(log[i], IsFailedLlm)
              /\ Stages(log[i]) = PipelineOrder(variant)
              /\ \/ \E k \in 1..Len(log[i]) :
                        IsAnswer(log[i][k]) /\ result[i].data = log[i][k].value
                 \/ /\ IsErrorValue(result[i].data)
                    /\ result[i].data.sql = result[i].sql_generated
        /\ (variant # "mock" /\ pc[i] \notin {"idle", "returned", "raised"}
            /\ Len(log[i]) > 0) => ~IsFailedLlm(log[i][Len(log[i])])

C27_Witness ==
    /\ pc[1] = "returned"
    /\ closer = "closing"
    /\ IsErrorValue(result[1].data)
    /\ result[1].data.error = <<"tool call failed", "request failed", "session is closed">>


LowerSelect == <<"s", "e", "l", "e", "c", "t">>
\* The text is whitespace followed by the letters of SELECT in either case.
BeginsWithSelect(text) ==
    \E n \in 0..Len(text) :
        /\ \A j \in 1..n : text[j] \in Whitespace
        /\ Len(text) >= n + 6
        /\ \A j \in 1..6 : text[n + j] \in {SelectKeyword[j], LowerSelect[j]}
IsQueryReply == reply.name = "execute_query" /\ Has(reply.arguments, "sql")
QueryExecutes == SqliteExecute(reply.before.tables, reply.arguments.sql.sem).ok

\* C22: execute_query classifies a statement by its leading keyword after
\* trimming, in either case: a statement beginning with SELECT that executes
\* returns {type: 'select', columns, rows, row_count} with row_count the
\* number of the rows returned; any other statement that executes is
\* committed and returns {type: 'dml', affected_rows, message} without rows.
C22_ClassifiedByLeadingKeyword ==
    (IsQueryReply /\ QueryExecutes) =>
        LET sql == reply.arguments.sql
            v == reply.value
            r == SqliteExecute(reply.before.tables, sql.sem)
        IN  IF BeginsWithSelect(sql.text)
            THEN /\ Keys(v) = {"type", "columns", "rows", "row_count"}
                 /\ v.type = "select"
                 /\ v.rows = RowsOf(reply.before.tables, sql.sem.table)
                 /\ v.row_count = Len(v.rows)
                 /\ v.columns = ColumnNames(sql.sem.table)
            ELSE /\ Keys(v) = {"type", "affected_rows", "message"}
                 /\ v.type = "dml"
                 /\ v.affected_rows = r.rowcount
                 /\ db.tables = r.tables

C22_Witness ==
    /\ IsQueryReply
    /\ reply.arguments.sql.text = <<"\n", " ", "s", "e", "l", "e", "c", "t", " * FROM ", "users", "\n">>
    /\ reply.value.type = "select"
    /\ reply.value.row_count = 3

\* The call fails: the tool is unknown, an argument is missing, the table is
\* not found or SQLite rejects the statement.
CallFails ==
    \/ reply.name \notin ToolNames
    \/ /\ reply.name = "execute_query"
       /\ \/ ~Has(reply.arguments, "sql")
          \/ ~SqliteExecute(reply.before.tables, reply.arguments.sql.sem).ok
    \/ /\ reply.name \in {"get_table_info", "get_sample_data"}
       /\ \/ ~Has(reply.arguments, "table_name")
          \/ reply.arguments.table_name \notin Tables

\* C23: call_tool never raises: a failed call (SQL error, table not found,
\* unknown tool, missing argument) returns {error: message}, a successful
\* call returns a value without an error key.
C23_CallToolNeverRaises ==
    reply.name # "none" =>
        /\ ~reply.raised
        /\ CallFails => /\ Keys(reply.value) = {"error"}
                        /\ Len(reply.value.error) > 0
        /\ ~CallFails => /\ IsDict(reply.value)
                         /\ ~Has(reply.value, "error")

C23_Witness ==
    /\ reply.name = "get_sample_data"
    /\ reply.arguments = [limit |-> 1]
    /\ ~reply.raised
    /\ reply.value = [error |-> KeyError("table_name")]

\* C29: execute_query changes the file exactly when a statement that is not
\* classified as SELECT executed without error; a failed statement leaves
\* every table as it was and is reported as an SQL execution error, and the
\* connection opened for the call is closed on both paths.
C29_CommitsIffExecuted ==
    /\ db.open = 0
    /\ IsQueryReply =>
          LET sql == reply.arguments.sql
              r == SqliteExecute(reply.before.tables, sql.sem)
          IN  /\ db.open = reply.before.open
              /\ (r.ok /\ ~BeginsWithSelect(sql.text)) => db.tables = r.tables
              /\ BeginsWithSelect(sql.text) => db.tables = reply.before.tables
              /\ ~r.ok => /\ db.tables = reply.before.tables
                          /\ Keys(reply.value) = {"error"}
                          /\ reply.value.error = <<SqlError, r.cause>>

C29_Witness ==
    /\ IsQueryReply
    /\ reply.arguments.sql.sem = Sem("insert_or_fail", "users", <<3, 1>>)
    /\ reply.before.tables.users = {1, 2}
    /\ db.tables.users = {1, 2}
    /\ reply.value = [error |-> <<SqlError, "UNIQUE constraint failed">>]

\* The text the describer is to produce for the tables of the model: per
\* table a header line, one line per column in the order of the store, and a
\* blank line.
RECURSIVE DescriptionFrom(_)
DescriptionFrom(j) ==
    IF j > Len(TableOrder) THEN <<>>
    ELSE LET t == TableOrder[j]
         IN  <<HeaderLine(t)>>
                 \o [c \in 1..Len(TableColumns[t]) |->
                        ColumnLine(TableColumns[t][c].name, TableColumns[t][c].type)]
                 \o <<BlankLine>> \o DescriptionFrom(j + 1)
IsMappingSchema(schema) ==
    /\ Has(schema, "tables")
    /\ IsDict(schema.tables)
    /\ Keys(schema.tables) = Tables

\* C24: for a schema that maps each table name to its column descriptors,
\* as get_schema returns it, the describer emits per table a header line, one
\* indented "name (type)" line per column in the order of the store and a
\* blank line; the local describer of SQLAgent emits the same text.
C24_DescribesMappingSchema ==
    /\ (adv_out.op = "describe" /\ IsMappingSchema(adv_in)) =>
          adv_out.value = JoinLines(DescriptionFrom(1))
    /\ adv_out.op = "describe_local" => adv_out.value = JoinLines(DescriptionFrom(1))

\* C28: after the async with block exits the client is as after disconnect():
\* connected is false and no usable session is held, and a call_tool made
\* then fails as not connected without a request on the closed session.
C28_ExitLeavesDisconnected ==
    scope = "exited" =>
        /\ direct_call = NoOutcome => (~connected /\ session # "open")
        /\ direct_call.op = "call_tool" =>
              /\ direct_call.raised
              /\ direct_call.message = NotConnectedError

SameOutcome(a, b) == a.raised = b.raised /\ a.value = b.value

\* C30: for each of the four tools call_tool of the sync client gives the
\* outcome of the matching direct method of the sync client with the same
\* arguments, as call_tool of a connected DatabaseMCPClient gives the outcome
\* of its direct method.
C30_CallToolMatchesDirectMethod ==
    /\ direct_call.op = "sync_call_tool" =>
          SameOutcome(direct_call,
                      SyncMethod(direct_call.on, direct_call.name, direct_call.arguments))
    /\ (direct_call.op = "call_tool" /\ connected /\ direct_call.name \in ToolNames) =>
          SameOutcome(direct_call,
                      ClientMethod(Held, direct_call.on, direct_call.name,
                                 direct_call.arguments))

HealthPcs == {"reason_health", "action_s_health", "action_health"}

\* C21: the check of mcp_connected, the awaited connect() and the update of
\* the flag are separate steps: the step that reads the flag as false and
\* invokes connect() leaves the flag false and suspends at the health check,
\* and the flag becomes true only when a health check ends; so two concurrent
\* invocations can both read the flag as false and both invoke connect() on
\* the shared client.
C21_CheckAndConnectNotAtomic ==
    [][/\ \A i \in Slots :
             (Moves(i) /\ HasConnect(Appended(i))) =>
                 /\ ~mcp_connected
                 /\ ~mcp_connected'
                 /\ running' = 0
                 /\ pc'[i] \in HealthPcs
       /\ (~mcp_connected /\ mcp_connected') => \E i \in Slots : IsHealthStep(i)]_vars

C21_Witness ==
    /\ pc[1] \in HealthPcs
    /\ pc[2] \in HealthPcs
    /\ HasConnect(log[1])
    /\ HasConnect(log[2])
    /\ ~mcp_connected
    /\ session = "open"
=============================================================================
